---- MODULE Spec2Model ----
(***************************************************************************)
(* A model of the columnar codec engine of serde_arrow: the List and Utf8  *)
(* array builders behind the ArrayBuilder envelope, the construction of    *)
(* array deserializers from field descriptors and arrays, and the          *)
(* MapDeserializer cursor machine.                                         *)
(*                                                                         *)
(* The module holds three state machines over one set of variables:        *)
(*   SpecBuilder  the emission events on one ArrayBuilder                  *)
(*   SpecBuild    build_deserializer / build_array_deserializer and the    *)
(*                encode-decode round trip                                 *)
(*   SpecMap      the operations of one MapDeserializer                    *)
(***************************************************************************)
EXTENDS Integers, Sequences, FiniteSets, TLC

VARIABLES
    ab,        \* the ArrayBuilder under test (a List or Utf8 variant)
    taken,     \* the builder returned by the most recent ArrayBuilder::take
    rows,      \* rows recorded by ab since creation or the last take
    open,      \* TRUE between a successful sequence start and its end
    bres,      \* the Result of the most recent builder event
    fed,       \* the caller's record of the rows it fed and where it took
    bd,        \* the most recent deserializer construction: call, inputs, Result
    rowsRead,  \* rows requested from the constructed deserializer so far
    rt,        \* the most recent encode-decode round trip: input and output
    md,        \* the MapDeserializer under test, with its key and value children
    mres,      \* the most recent MapDeserializer call: cursor before it, answer
    phase,     \* what the consumer calls next: "row", "some", "key" or "value"
    proto,     \* TRUE while the consumer has followed the MapAccess protocol
    mlog,      \* the entries read from the row being visited
    dd,        \* the Date32Deserializer under test
    dres,      \* the most recent Date32Deserializer call: cursor before it, answer
    shared,    \* the buffers two MapDeserializers are built over
    inst,      \* the two MapDeserializers' own state (cursor and child cursors)
    solo,      \* per process, a MapDeserializer run alone on a private copy
    ans,       \* per process, the latest answer of its instance and of its solo run
    topts,     \* the TracingOptions value under construction
    tlog       \* what the caller did to topts: setters called, overwrites made

bvars == <<ab, taken, rows, open, bres, fed>>

cvars == <<bd, rowsRead, rt>>

mvars == <<md, mres, phase, proto, mlog>>

dvars == <<dd, dres>>

pvars == <<shared, inst, solo, ans>>

tvars == <<topts, tlog>>

xvars == <<dvars, pvars, tvars>>

vars == <<ab, taken, rows, open, bres, fed, bd, rowsRead, rt, md, mres, phase, proto, mlog,
          dd, dres, shared, inst, solo, ans, topts, tlog>>

(***************************************************************************)
(* Bounds of the model.                                                    *)
(***************************************************************************)
MaxRows == 2
MaxElems == 2

\* the u8 items fed to a list's element builder
ElemVals == {1, 2}

\* the items of a sequence: u8 values, and a u16 value out of u8's range
ItemVals == ElemVals \cup {256}

\* the strings (as byte sequences) fed to a Utf8 builder or as serialize_bytes
Strs == {<<>>, <<1>>, <<1, 2>>}

Last(s) == s[Len(s)]

(***************************************************************************)
(* Result<T>: Ok(v), or an Error with its annotations (a set of            *)
(* <<key, value>> pairs); st is the receiver's state after the call.       *)
(***************************************************************************)
Ok(st) == [ok |-> TRUE, st |-> st, msg |-> "", annotations |-> {}]

Fail(m, st) == [ok |-> FALSE, st |-> st, msg |-> m, annotations |-> {}]

NoResult == [ok |-> TRUE, st |-> <<>>, msg |-> "none", annotations |-> {}]

\* Error::annotate_unannotated: annotate only when no annotation is attached
annotate_unannotated(r, key, value) ==
    IF r.ok \/ r.annotations # {} THEN r
    ELSE [r EXCEPT !.annotations = {<<key, value>>}]

(***************************************************************************)
(* utils::array_ext: OffsetsArray<O> and BytesArray<O>.                    *)
(***************************************************************************)
OffsetsArray_new(is_nullable) ==
    [nullable |-> is_nullable, validity |-> <<>>, offsets |-> <<0>>]

push_validity(o, bit) ==
    IF o.nullable THEN [o EXCEPT !.validity = Append(@, bit)] ELSE o

duplicate_last(o) == [o EXCEPT !.offsets = Append(@, Last(@))]

start_seq(o) == Ok(push_validity(duplicate_last(o), TRUE))

push_seq_elements(o, n) ==
    Ok([o EXCEPT !.offsets[Len(o.offsets)] = @ + n])

end_seq(o) == Ok(o)

push_seq_default(o) == Ok(push_validity(duplicate_last(o), FALSE))

push_seq_none(o) ==
    IF o.nullable THEN Ok(push_validity(duplicate_last(o), FALSE))
    ELSE Fail("cannot push null for non-nullable array", o)

OffsetsArray_take(o) == [o EXCEPT !.validity = <<>>, !.offsets = <<0>>]

new_bytes_array(is_nullable) ==
    [nullable |-> is_nullable, validity |-> <<>>, offsets |-> <<0>>,
     data |-> <<>>]

push_scalar_value(a, bytes) ==
    Ok(push_validity([a EXCEPT !.offsets = Append(@, Last(@) + Len(bytes)),
                               !.data = @ \o bytes], TRUE))

push_scalar_default(a) == Ok(push_validity(duplicate_last(a), FALSE))

push_scalar_none(a) ==
    IF a.nullable THEN Ok(push_validity(duplicate_last(a), FALSE))
    ELSE Fail("cannot push null for non-nullable array", a)

BytesArray_take(a) ==
    [a EXCEPT !.validity = <<>>, !.offsets = <<0>>, !.data = <<>>]

(***************************************************************************)
(* The element builder of a list: an IntBuilder<u8> behind the envelope.   *)
(***************************************************************************)
IntBuilder_new(path) == [variant |-> "U8", path |-> path, values |-> <<>>]

IntBuilder_serialize_u8(b, v) == Ok([b EXCEPT !.values = Append(@, v)])

\* a wider integer is converted to u8; the conversion fails out of range
IntBuilder_serialize_u16(b, v) ==
    IF v < 256 THEN Ok([b EXCEPT !.values = Append(@, v)])
    ELSE Fail("out of range integral type conversion attempted", b)

IntBuilder_annotate_error(b, r) == annotate_unannotated(r, "field", b.path)

\* value.serialize(Mut(element)): an integer item reaches the element's
\* envelope as a serialize_u8 or a serialize_u16 event, by its type
Element_serialize(e, v) ==
    IntBuilder_annotate_error(e,
        IF v \in ElemVals THEN IntBuilder_serialize_u8(e, v)
        ELSE IntBuilder_serialize_u16(e, v))

IntBuilder_take(b) == [b EXCEPT !.values = <<>>]

(***************************************************************************)
(* internal/serialization/list_builder.rs                                  *)
(***************************************************************************)
ListBuilder_new(variant, path, element, is_nullable) ==
    [variant |-> variant, path |-> path, element |-> element,
     offsets |-> OffsetsArray_new(is_nullable)]

\* the builder returned by take; ListBuilder_left is what self becomes
ListBuilder_take(b) == b

ListBuilder_left_keep_element(b) ==
    [b EXCEPT !.offsets = OffsetsArray_take(@)]

ListBuilder_left(b) ==
    [b EXCEPT !.offsets = OffsetsArray_take(@),
              !.element = IntBuilder_take(@)]

ListBuilder_is_nullable(b) == b.offsets.nullable

\* lift a Result over the offsets to a Result over the builder
WithOffsets(b, r) == [r EXCEPT !.st = [b EXCEPT !.offsets = r.st]]

WithElement(b, r) == [r EXCEPT !.st = [b EXCEPT !.element = r.st]]

ListBuilder_start_skip(b) == Ok(b)

ListBuilder_start(b) == WithOffsets(b, start_seq(b.offsets))

ListBuilder_element_uncounted(b, v) ==
    WithElement(b, Element_serialize(b.element, v))

ListBuilder_element(b, v) ==
    LET r == WithOffsets(b, push_seq_elements(b.offsets, 1))
    IN  IF ~r.ok THEN r
        ELSE WithElement(r.st, Element_serialize(r.st.element, v))

ListBuilder_end(b) == WithOffsets(b, end_seq(b.offsets))

ListBuilder_annotate_error_replace(b, r) ==
    IF r.ok THEN r ELSE [r EXCEPT !.annotations = {<<"field", b.path>>}]

ListBuilder_annotate_error(b, r) == annotate_unannotated(r, "field", b.path)

ListBuilder_serialize_default(b) == WithOffsets(b, push_seq_default(b.offsets))

ListBuilder_serialize_none_wide(b) ==
    LET r == push_seq_none(b.offsets)
    IN  IF ~r.ok THEN WithOffsets(b, r)
        ELSE WithOffsets(b, push_seq_elements(r.st, 1))

ListBuilder_serialize_none_recursing(b) ==
    LET r == WithOffsets(b, push_seq_none(b.offsets))
    IN  IF ~r.ok THEN r
        ELSE WithElement(r.st, IntBuilder_serialize_u8(r.st.element, 0))

ListBuilder_serialize_none(b) == WithOffsets(b, push_seq_none(b.offsets))

ListBuilder_serialize_seq_start(b) == ListBuilder_start(b)

ListBuilder_serialize_seq_element(b, v) == ListBuilder_element(b, v)

ListBuilder_serialize_seq_end(b) == ListBuilder_end(b)

ListBuilder_serialize_tuple_start(b) == ListBuilder_start(b)

ListBuilder_serialize_tuple_element_uncounted(b, v) ==
    WithElement(b, Element_serialize(b.element, v))

ListBuilder_serialize_tuple_element(b, v) == ListBuilder_element(b, v)

ListBuilder_serialize_tuple_end(b) == ListBuilder_end(b)

ListBuilder_serialize_tuple_struct_start(b) == ListBuilder_start(b)

ListBuilder_serialize_tuple_struct_field(b, v) == ListBuilder_element(b, v)

ListBuilder_serialize_tuple_struct_end(b) == ListBuilder_end(b)

RECURSIVE ListBuilder_elements(_, _)
\* the loop of serialize_bytes: self.element(item)? for each item of v
ListBuilder_elements(r, v) ==
    IF ~r.ok \/ v = <<>> THEN r
    ELSE ListBuilder_elements(ListBuilder_element(r.st, Head(v)), Tail(v))

ListBuilder_serialize_bytes(b, v) ==
    LET r == ListBuilder_elements(ListBuilder_start(b), v)
    IN  IF ~r.ok THEN r ELSE ListBuilder_end(r.st)

\* not overridden by ListBuilder: the SimpleSerializer default fails
ListBuilder_serialize_str(b, v) ==
    Fail("serialize_str is not supported by ListBuilder", b)

ListBuilder_serialize_newtype_variant(b) ==
    Fail("serialize_newtype_variant is not supported by ListBuilder", b)

ListBuilder_serialize_struct_variant_start(b) ==
    Fail("serialize_struct_variant_start is not supported by ListBuilder", b)

ListBuilder_serialize_tuple_variant_start(b) ==
    Fail("serialize_tuple_variant_start is not supported by ListBuilder", b)

(***************************************************************************)
(* internal/serialization/utf8_builder.rs                                  *)
(***************************************************************************)
Utf8Builder_new(variant, path, is_nullable) ==
    [variant |-> variant, path |-> path, array |-> new_bytes_array(is_nullable)]

Utf8Builder_take(b) == b

Utf8Builder_left_stale(b) == b

Utf8Builder_left(b) == [b EXCEPT !.array = BytesArray_take(@)]

Utf8Builder_is_nullable(b) == b.array.nullable

WithArray(b, r) == [r EXCEPT !.st = [b EXCEPT !.array = r.st]]

Utf8Builder_annotate_error(b, r) == annotate_unannotated(r, "field", b.path)

Utf8Builder_serialize_default(b) == WithArray(b, push_scalar_default(b.array))

Utf8Builder_serialize_none(b) == WithArray(b, push_scalar_none(b.array))

Utf8Builder_serialize_str(b, v) == WithArray(b, push_scalar_value(b.array, v))

\* not overridden by Utf8Builder: the SimpleSerializer defaults fail
Utf8Builder_serialize_bytes(b, v) ==
    Fail("serialize_bytes is not supported by Utf8Builder", b)

Utf8Builder_serialize_seq_start(b) ==
    Fail("serialize_seq_start is not supported by Utf8Builder", b)

Utf8Builder_serialize_tuple_start(b) ==
    Fail("serialize_tuple_start is not supported by Utf8Builder", b)

Utf8Builder_serialize_tuple_struct_start(b) ==
    Fail("serialize_tuple_struct_start is not supported by Utf8Builder", b)

Utf8Builder_serialize_tuple_variant_start_push(b) ==
    [ok |-> FALSE, st |-> Utf8Builder_serialize_default(b).st,
     msg |-> "Cannot serialize enum with data as string", annotations |-> {}]

Utf8Builder_serialize_tuple_variant_start(b) ==
    Fail("Cannot serialize enum with data as string", b)

Utf8Builder_serialize_struct_variant_start(b) ==
    Fail("Cannot serialize enum with data as string", b)

Utf8Builder_serialize_newtype_variant(b) ==
    Fail("Cannot serialize enum with data as string", b)

(***************************************************************************)
(* internal/serialization/array_builder.rs: the dispatch envelope.         *)
(***************************************************************************)
ListVariants == {"List", "LargeList"}

Utf8Variants == {"Utf8", "LargeUtf8"}

IsList(b) == b.variant \in ListVariants

ArrayBuilder_is_nullable(b) ==
    IF IsList(b) THEN ListBuilder_is_nullable(b) ELSE Utf8Builder_is_nullable(b)

ArrayBuilder_annotate_error(b, r) ==
    IF IsList(b) THEN ListBuilder_annotate_error(b, r)
    ELSE Utf8Builder_annotate_error(b, r)

ArrayBuilder_take(b) ==
    IF IsList(b) THEN ListBuilder_take(b) ELSE Utf8Builder_take(b)

ArrayBuilder_left(b) ==
    IF IsList(b) THEN ListBuilder_left(b) ELSE Utf8Builder_left(b)

ArrayBuilder_serialize_default(b) ==
    ArrayBuilder_annotate_error(b,
        IF IsList(b) THEN ListBuilder_serialize_default(b)
        ELSE Utf8Builder_serialize_default(b))

ArrayBuilder_serialize_none(b) ==
    ArrayBuilder_annotate_error(b,
        IF IsList(b) THEN ListBuilder_serialize_none(b)
        ELSE Utf8Builder_serialize_none(b))

ArrayBuilder_serialize_str(b, v) ==
    ArrayBuilder_annotate_error(b,
        IF IsList(b) THEN ListBuilder_serialize_str(b, v)
        ELSE Utf8Builder_serialize_str(b, v))

ArrayBuilder_serialize_bytes(b, v) ==
    ArrayBuilder_annotate_error(b,
        IF IsList(b) THEN ListBuilder_serialize_bytes(b, v)
        ELSE Utf8Builder_serialize_bytes(b, v))

ArrayBuilder_serialize_seq_start(b) ==
    ArrayBuilder_annotate_error(b,
        IF IsList(b) THEN ListBuilder_serialize_seq_start(b)
        ELSE Utf8Builder_serialize_seq_start(b))

ArrayBuilder_serialize_tuple_start(b) ==
    ArrayBuilder_annotate_error(b,
        IF IsList(b) THEN ListBuilder_serialize_tuple_start(b)
        ELSE Utf8Builder_serialize_tuple_start(b))

ArrayBuilder_serialize_tuple_struct_start(b) ==
    ArrayBuilder_annotate_error(b,
        IF IsList(b) THEN ListBuilder_serialize_tuple_struct_start(b)
        ELSE Utf8Builder_serialize_tuple_struct_start(b))

ArrayBuilder_serialize_newtype_variant(b) ==
    ArrayBuilder_annotate_error(b,
        IF IsList(b) THEN ListBuilder_serialize_newtype_variant(b)
        ELSE Utf8Builder_serialize_newtype_variant(b))

\* Error::empty(): an error with no message and no annotations
Error_empty == [ok |-> FALSE, st |-> <<>>, msg |-> "", annotations |-> {}]

\* the annotations of err, and those of annotations_err under the keys
\* that err does not have
merge_annotations(err, annotations_err) ==
    IF err.ok THEN err
    ELSE [err EXCEPT !.annotations =
            @ \cup {a \in annotations_err.annotations :
                       \A e \in err.annotations : e[1] # a[1]}]

ArrayBuilder_serialize_struct_variant_start(b) ==
    LET annotations_err == ArrayBuilder_annotate_error(b, Error_empty)
    IN  merge_annotations(
            IF IsList(b) THEN ListBuilder_serialize_struct_variant_start(b)
            ELSE Utf8Builder_serialize_struct_variant_start(b),
            annotations_err)

ArrayBuilder_serialize_tuple_variant_start(b) ==
    LET annotations_err == ArrayBuilder_annotate_error(b, Error_empty)
    IN  merge_annotations(
            IF IsList(b) THEN ListBuilder_serialize_tuple_variant_start(b)
            ELSE Utf8Builder_serialize_tuple_variant_start(b),
            annotations_err)

\* element and end events reach a builder only inside an open sequence,
\* which only a list builder can have
ArrayBuilder_serialize_seq_element(b, v) ==
    ArrayBuilder_annotate_error(b, ListBuilder_serialize_seq_element(b, v))

ArrayBuilder_serialize_seq_end(b) ==
    ArrayBuilder_annotate_error(b, ListBuilder_serialize_seq_end(b))

ArrayBuilder_serialize_tuple_element(b, v) ==
    ArrayBuilder_annotate_error(b, ListBuilder_serialize_tuple_element(b, v))

ArrayBuilder_serialize_tuple_end(b) ==
    ArrayBuilder_annotate_error(b, ListBuilder_serialize_tuple_end(b))

ArrayBuilder_serialize_tuple_struct_field(b, v) ==
    ArrayBuilder_annotate_error(b, ListBuilder_serialize_tuple_struct_field(b, v))

ArrayBuilder_serialize_tuple_struct_end(b) ==
    ArrayBuilder_annotate_error(b, ListBuilder_serialize_tuple_struct_end(b))

(***************************************************************************)
(* The views of a builder that into_array hands to the array.              *)
(***************************************************************************)
BOffsets(b) == IF IsList(b) THEN b.offsets.offsets ELSE b.array.offsets

BValidity(b) == IF IsList(b) THEN b.offsets.validity ELSE b.array.validity

NumRows(b) == Len(BOffsets(b)) - 1

NoBuilder == [variant |-> "NoBuilder"]

NoBuild == [fn |-> "none"]

NoRoundTrip == [kind |-> "none"]

NoCall == [op |-> "none", at |-> <<0, 0>>, res |-> "none", val |-> 0]

NoLog == [row |-> 0, entries |-> <<>>, key |-> 0, complete |-> FALSE]

\* the MapDeserializer variables while no MapDeserializer is under test
MapIdle ==
    /\ md = [kind |-> "none"]
    /\ mres = NoCall
    /\ phase = "row"
    /\ proto = TRUE
    /\ mlog = NoLog

\* the variables of the other machines while they are not under test
NoDate32 == [kind |-> "none"]

NoOptions == [kind |-> "none"]

NoTracingLog == [op |-> "none"]

NoAnswer == [p |-> 0, same |-> TRUE]

\* rows: the rows accepted since the take before the most recent one, each
\* as the event that gave it ("none", "default", "str" with its bytes, "seq"
\* with its items; an open sequence, tuple or tuple struct is the last of
\* them under its own name and becomes a "seq" row, as a bytes row is, when
\* it ends); cut: how many of the rows came before the most recent take
NoFed == [rows |-> <<>>, cut |-> 0]

PairIdle ==
    /\ shared = <<>>
    /\ inst = <<>>
    /\ solo = <<>>
    /\ ans = NoAnswer

TracingIdle ==
    /\ topts = NoOptions
    /\ tlog = NoTracingLog

OthersIdle ==
    /\ dd = NoDate32
    /\ dres = NoCall
    /\ PairIdle
    /\ TracingIdle

(***************************************************************************)
(* The builder state machine: one event of the emission protocol per step. *)
(* An error is terminal: the caller drops the builder.                     *)
(***************************************************************************)
Builders ==
    {ListBuilder_new(v, "$.items", IntBuilder_new("$.items.element"), n) :
        v \in ListVariants, n \in BOOLEAN}
    \cup {Utf8Builder_new(v, "$.name", n) : v \in Utf8Variants, n \in BOOLEAN}

InitBuilder ==
    /\ ab \in Builders
    /\ taken = NoBuilder
    /\ rows = 0
    /\ open = FALSE
    /\ fed = NoFed
    /\ bres = NoResult
    /\ bd = NoBuild
    /\ rowsRead = 0
    /\ rt = NoRoundTrip
    /\ MapIdle
    /\ OthersIdle

TakenRows == IF taken = NoBuilder THEN 0 ELSE NumRows(taken)

\* a new row may start: no error so far, no open sequence, room in the bound
CanStartRow == bres.ok /\ ~open /\ rows + TakenRows < MaxRows

FedRow(ev, v) == [ev |-> ev, v |-> v]

\* the kind of the sequence the caller has open
OpenKind == fed.rows[Len(fed.rows)].ev

\* the effect of a row event that completes its row in one call
RowEvent(r, ev, v) ==
    /\ bres' = r
    /\ ab' = r.st
    /\ rows' = IF r.ok THEN rows + 1 ELSE rows
    /\ fed' = IF r.ok
              THEN [fed EXCEPT !.rows = Append(@, FedRow(IF ev = "bytes" THEN "seq"
                                                         ELSE ev, v))]
              ELSE fed
    /\ UNCHANGED <<taken, open, cvars, mvars, xvars>>

SerializeDefault ==
    /\ CanStartRow
    /\ RowEvent(ArrayBuilder_serialize_default(ab), "default", <<>>)

SerializeNone ==
    /\ CanStartRow
    /\ RowEvent(ArrayBuilder_serialize_none(ab), "none", <<>>)

SerializeStr(v) ==
    /\ CanStartRow
    /\ RowEvent(ArrayBuilder_serialize_str(ab, v), "str", v)

SerializeBytes(v) ==
    /\ CanStartRow
    /\ RowEvent(ArrayBuilder_serialize_bytes(ab, v), "bytes", v)

SerializeNewtypeVariant ==
    /\ CanStartRow
    /\ RowEvent(ArrayBuilder_serialize_newtype_variant(ab), "newtype_variant", <<>>)

SerializeStructVariantStart ==
    /\ CanStartRow
    /\ RowEvent(ArrayBuilder_serialize_struct_variant_start(ab), "struct_variant", <<>>)

SerializeTupleVariantStart ==
    /\ CanStartRow
    /\ RowEvent(ArrayBuilder_serialize_tuple_variant_start(ab), "tuple_variant", <<>>)

\* the start event of a sequence, a tuple or a tuple struct
StartEvent(r, ev) ==
    /\ CanStartRow
    /\ bres' = r
    /\ ab' = r.st
    /\ open' = r.ok
    /\ fed' = IF r.ok THEN [fed EXCEPT !.rows = Append(@, FedRow(ev, <<>>))] ELSE fed
    /\ UNCHANGED <<taken, rows, cvars, mvars, xvars>>

\* an element event inside the open sequence, tuple or tuple struct
ElementEvent(r, ev, v) ==
    /\ bres.ok /\ open /\ OpenKind = ev
    /\ Last(BOffsets(ab)) - BOffsets(ab)[Len(BOffsets(ab)) - 1] < MaxElems
    /\ bres' = r
    /\ ab' = r.st
    /\ fed' = IF r.ok THEN [fed EXCEPT !.rows[Len(fed.rows)].v = Append(@, v)]
              ELSE fed
    /\ UNCHANGED <<taken, rows, open, cvars, mvars, xvars>>

\* the end event of the open sequence, tuple or tuple struct
EndEvent(r, ev) ==
    /\ bres.ok /\ open /\ OpenKind = ev
    /\ bres' = r
    /\ ab' = r.st
    /\ open' = ~r.ok
    /\ rows' = IF r.ok THEN rows + 1 ELSE rows
    /\ fed' = IF r.ok THEN [fed EXCEPT !.rows[Len(fed.rows)].ev = "seq"] ELSE fed
    /\ UNCHANGED <<taken, cvars, mvars, xvars>>

SerializeSeqStart == StartEvent(ArrayBuilder_serialize_seq_start(ab), "seq")

SerializeSeqElement(v) ==
    ElementEvent(ArrayBuilder_serialize_seq_element(ab, v), "seq", v)

SerializeSeqEnd == EndEvent(ArrayBuilder_serialize_seq_end(ab), "seq")

SerializeTupleStart == StartEvent(ArrayBuilder_serialize_tuple_start(ab), "tuple")

SerializeTupleElement(v) ==
    ElementEvent(ArrayBuilder_serialize_tuple_element(ab, v), "tuple", v)

SerializeTupleEnd == EndEvent(ArrayBuilder_serialize_tuple_end(ab), "tuple")

SerializeTupleStructStart ==
    StartEvent(ArrayBuilder_serialize_tuple_struct_start(ab), "tuple_struct")

SerializeTupleStructField(v) ==
    ElementEvent(ArrayBuilder_serialize_tuple_struct_field(ab, v), "tuple_struct", v)

SerializeTupleStructEnd ==
    EndEvent(ArrayBuilder_serialize_tuple_struct_end(ab), "tuple_struct")

\* the caller keeps the rows of the chunk it took and forgets the chunk before
Take ==
    /\ bres.ok /\ ~open
    /\ taken' = ArrayBuilder_take(ab)
    /\ ab' = ArrayBuilder_left(ab)
    /\ rows' = 0
    /\ bres' = Ok(ab')
    /\ fed' = [rows |-> SubSeq(fed.rows, fed.cut + 1, Len(fed.rows)),
               cut |-> Len(fed.rows) - fed.cut]
    /\ UNCHANGED <<open, cvars, mvars, xvars>>

NextBuilder ==
    \/ SerializeDefault
    \/ SerializeNone
    \/ \E v \in Strs : SerializeStr(v)
    \/ \E v \in Strs : SerializeBytes(v)
    \/ SerializeNewtypeVariant
    \/ SerializeStructVariantStart
    \/ SerializeTupleVariantStart
    \/ SerializeSeqStart
    \/ \E v \in ItemVals : SerializeSeqElement(v)
    \/ SerializeSeqEnd
    \/ SerializeTupleStart
    \/ \E v \in ItemVals : SerializeTupleElement(v)
    \/ SerializeTupleEnd
    \/ SerializeTupleStructStart
    \/ \E v \in ItemVals : SerializeTupleStructField(v)
    \/ SerializeTupleStructEnd
    \/ Take

SpecBuilder == InitBuilder /\ [][NextBuilder]_vars

(***************************************************************************)
(* C1: after successful, complete row events (interleaved with take), when *)
(* no sequence is open the offsets of a List or Utf8 builder are           *)
(* non-decreasing and number rows + 1.                                     *)
(***************************************************************************)
NonDecreasing(s) == \A i \in 1..(Len(s) - 1) : s[i] <= s[i + 1]

OffsetsMonotoneAndSized ==
    (bres.ok /\ ~open) =>
        /\ NonDecreasing(BOffsets(ab))
        /\ Len(BOffsets(ab)) = rows + 1
        /\ taken # NoBuilder => NonDecreasing(BOffsets(taken))

\* a row of positive width was taken, and a row of positive width follows it
OffsetsWitness ==
    /\ bres.ok /\ ~open /\ rows = 1
    /\ taken # NoBuilder /\ NumRows(taken) = 1
    /\ Last(BOffsets(taken)) > 0
    /\ BOffsets(ab)[1] = 0 /\ BOffsets(ab)[2] > 0

(***************************************************************************)
(* C2: in a nullable List or Utf8 builder every row whose validity bit is  *)
(* 0 has zero width: offsets[i+1] = offsets[i].                            *)
(***************************************************************************)
NullRowsHaveZeroWidth ==
    (bres.ok /\ ~open /\ ArrayBuilder_is_nullable(ab)) =>
        /\ Len(BValidity(ab)) = NumRows(ab)
        /\ \A i \in 1..NumRows(ab) :
              ~BValidity(ab)[i] => BOffsets(ab)[i + 1] = BOffsets(ab)[i]

NullRowWitness ==
    /\ bres.ok /\ ~open /\ ArrayBuilder_is_nullable(ab)
    /\ NumRows(ab) = 2
    /\ BValidity(ab)[1] /\ BOffsets(ab)[2] > 0
    /\ ~BValidity(ab)[2]

(***************************************************************************)
(* Field descriptors (GenericField) and arrow2 arrays.                     *)
(*                                                                         *)
(* An array is known to the code by its concrete class (the target of      *)
(* downcast_ref), its length, its validity bitmap, its child arrays        *)
(* (struct values, list values, the map's entries struct, union fields),   *)
(* its offsets (list, map, utf8), its union mode and type-id buffer, and   *)
(* its values buffer.  A class is the pair <<array type, type parameter>>. *)
(***************************************************************************)
Field(name, data_type, children) ==
    [name |-> name, data_type |-> data_type, children |-> children]

NoValidity == [some |-> FALSE, bits |-> <<>>]

SomeValidity(bits) == [some |-> TRUE, bits |-> bits]

Array(cls, len, validity, children, offsets, mode, types, data) ==
    [cls |-> cls, len |-> len, validity |-> validity, children |-> children,
     offsets |-> offsets, mode |-> mode, types |-> types, data |-> data]

\* Result<ArrayDeserializer>
NoDe == [kind |-> "none"]

DeOk(de) == [ok |-> TRUE, de |-> de, msg |-> ""]

DeFail(m) == [ok |-> FALSE, de |-> NoDe, msg |-> m]

get_validity(array) == array.validity

\* a leaf deserializer: its buffers and a cursor at row 0
LeafDeserializer(kind, array) ==
    [kind |-> kind, buffer |-> array.data, offsets |-> array.offsets,
     validity |-> get_validity(array), next |-> 0]

(***************************************************************************)
(* internal/deserialization: the supported list layout, as section 3 of    *)
(* the specification states it (offsets of length >= 1, non-decreasing,    *)
(* null rows of zero width).                                               *)
(***************************************************************************)
\* Result<bool>: "err" when i is outside the bitmap
bitset_is_set(validity, i) ==
    IF i < 0 \/ i >= Len(validity.bits) THEN "err"
    ELSE IF validity.bits[i + 1] THEN "true" ELSE "false"

check_supported_list_layout(validity, offsets) ==
    /\ Len(offsets) >= 1
    /\ \A i \in 1..(Len(offsets) - 1) : offsets[i] <= offsets[i + 1]
    /\ validity.some =>
          \A i \in 1..(Len(offsets) - 1) :
              (i <= Len(validity.bits) /\ ~validity.bits[i])
                  => offsets[i + 1] = offsets[i]

(***************************************************************************)
(* internal/deserialization/map_deserializer.rs: MapDeserializer::new      *)
(***************************************************************************)
MapDeserializer_new(path, key, value, offsets, validity) ==
    IF ~check_supported_list_layout(validity, offsets)
    THEN DeFail("unsupported list layout")
    ELSE DeOk([kind |-> "Map", path |-> path, key |-> key, value |-> value,
               offsets |-> offsets, validity |-> validity, next |-> <<0, 0>>])

\* ListDeserializer::new and EnumDeserializer::new return Self: the callers
\* wrap them in Ok(..) without `?`
ListDeserializer_new(kind, item, offsets, validity) ==
    [kind |-> kind, item |-> item, offsets |-> offsets, validity |-> validity,
     next |-> <<0, 0>>]

EnumDeserializer_new(type_ids, variants) ==
    [kind |-> "Enum", type_ids |-> type_ids, variants |-> variants, next |-> 0]

StructDeserializer_new(deserializers, validity, len) ==
    [kind |-> "Struct", fields |-> deserializers, validity |-> validity,
     len |-> len, next |-> 0]

OuterSequenceDeserializer_new(deserializers, len) ==
    [kind |-> "OuterSequence", fields |-> deserializers, len |-> len, next |-> 0]

(***************************************************************************)
(* arrow2_impl/deserialization.rs                                          *)
(***************************************************************************)
RECURSIVE build_array_deserializer(_, _)

build_bool_deserializer(array) ==
    IF array.cls # <<"BooleanArray", "">>
    THEN DeFail("cannot interpret array as Bool array")
    ELSE DeOk(LeafDeserializer("Bool", array))

\* T is the native type of the PrimitiveArray<T> the array is downcast to
build_integer_deserializer(T, field, array) ==
    IF array.cls # <<"PrimitiveArray", T>>
    THEN DeFail("cannot interpret array as integer array")
    ELSE DeOk(LeafDeserializer(field.data_type, array))

build_float_deserializer(T, field, array) ==
    IF array.cls # <<"PrimitiveArray", T>>
    THEN DeFail("cannot interpret array as integer array")
    ELSE DeOk(LeafDeserializer(field.data_type, array))

build_date64_deserializer(field, array) ==
    IF array.cls # <<"PrimitiveArray", "i64">>
    THEN DeFail("cannot interpret array as integer array")
    ELSE DeOk(LeafDeserializer("Date64", array))

build_string_deserializer(O, array) ==
    IF array.cls # <<"Utf8Array", O>>
    THEN DeFail("cannot interpret array as Utf8 array")
    ELSE DeOk(LeafDeserializer(IF O = "i32" THEN "Utf8" ELSE "LargeUtf8", array))

RECURSIVE build_struct_fields_loop_reversed(_, _, _, _, _)
build_struct_fields_loop_reversed(fields, arrays, len, i, acc) ==
    IF i > Len(fields) THEN DeOk([fields |-> acc, len |-> len])
    ELSE IF arrays[i].len # len
    THEN DeFail("arrays of different lengths are not supported")
    ELSE LET r == build_array_deserializer(fields[i], arrays[i])
         IN  IF ~r.ok THEN r
             ELSE build_struct_fields_loop_reversed(fields, arrays, len, i + 1,
                      <<[name |-> fields[i].name, de |-> r.de]>> \o acc)

RECURSIVE build_struct_fields_loop(_, _, _, _, _)
\* the loop of build_struct_fields, from position i with acc built so far
build_struct_fields_loop(fields, arrays, len, i, acc) ==
    IF i > Len(fields) THEN DeOk([fields |-> acc, len |-> len])
    ELSE IF arrays[i].len # len
    THEN DeFail("arrays of different lengths are not supported")
    ELSE LET r == build_array_deserializer(fields[i], arrays[i])
         IN  IF ~r.ok THEN r
             ELSE build_struct_fields_loop(fields, arrays, len, i + 1,
                      Append(acc, [name |-> fields[i].name, de |-> r.de]))

build_struct_fields_unchecked(fields, arrays) ==
    LET n == IF Len(fields) < Len(arrays) THEN Len(fields) ELSE Len(arrays)
        len == IF arrays = <<>> THEN 0 ELSE arrays[1].len
        r == build_struct_fields_loop(SubSeq(fields, 1, n), arrays, len, 1, <<>>)
    IN  r

build_struct_fields(fields, arrays) ==
    IF Len(fields) # Len(arrays)
    THEN DeFail("different number of fields and arrays")
    ELSE LET len == IF arrays = <<>> THEN 0 ELSE arrays[1].len
         IN  build_struct_fields_loop(fields, arrays, len, 1, <<>>)

build_deserializer(fields, arrays) ==
    LET r == build_struct_fields(fields, arrays)
    IN  IF ~r.ok THEN r
        ELSE DeOk(OuterSequenceDeserializer_new(r.de.fields, r.de.len))

build_struct_deserializer(field, array) ==
    IF array.cls # <<"StructArray", "">>
    THEN DeFail("Cannot convert array into struct")
    ELSE LET r == build_struct_fields(field.children, array.children)
         IN  IF ~r.ok THEN r
             ELSE DeOk(StructDeserializer_new(r.de.fields, get_validity(array),
                                              r.de.len))

build_list_deserializer(O, field, array) ==
    IF array.cls # <<"ListArray", O>>
    THEN DeFail("cannot interpret array as LargeList array")
    ELSE IF field.children = <<>>
    THEN DeFail("cannot get first child of list array")
    ELSE LET item == build_array_deserializer(field.children[1], array.children[1])
         IN  IF ~item.ok THEN item
             ELSE DeOk(ListDeserializer_new(field.data_type, item.de,
                                            array.offsets, get_validity(array)))

\* the part of build_map_deserializer after all children were found; the
\* Result of MapDeserializer::new (map_deserializer.rs) is what is returned
build_map_children(field, keys_field, values_field, array, entries) ==
    LET keys == build_array_deserializer(keys_field, entries.children[1])
        values == build_array_deserializer(values_field, entries.children[2])
    IN  IF ~keys.ok THEN keys
        ELSE IF ~values.ok THEN values
        ELSE MapDeserializer_new(field.name, keys.de, values.de,
                                 array.offsets, get_validity(array))

build_map_deserializer(field, array) ==
    IF field.children = <<>> THEN DeFail("cannot get children of map")
    ELSE IF field.children[1].children = <<>> THEN DeFail("cannot get keys field")
    ELSE IF Len(field.children[1].children) < 2
    THEN DeFail("cannot get values field")
    ELSE IF array.cls # <<"MapArray", "">>
    THEN DeFail("cannot convert array into map array")
    ELSE IF array.children[1].cls # <<"StructArray", "">>
    THEN DeFail("cannot convert map field into struct array")
    ELSE IF array.children[1].children = <<>>
    THEN DeFail("cannot get keys array of map entries")
    ELSE IF Len(array.children[1].children) < 2
    THEN DeFail("cannot get values array of map entries")
    ELSE build_map_children(field, field.children[1].children[1],
                            field.children[1].children[2], array,
                            array.children[1])

RECURSIVE build_union_variants(_, _, _, _)
\* the loop of build_union_deserializer over field.children.iter().enumerate();
\* i - 1 is the type id
build_union_variants(fields, arrays, i, acc) ==
    IF i > Len(fields) THEN DeOk(acc)
    ELSE IF i > Len(arrays) THEN DeFail("Cannot get variant")
    ELSE LET r == build_array_deserializer(fields[i], arrays[i])
         IN  IF ~r.ok THEN r
             ELSE build_union_variants(fields, arrays, i + 1,
                      Append(acc, [name |-> fields[i].name, de |-> r.de]))

build_union_deserializer(field, array) ==
    IF array.cls # <<"UnionArray", "">>
    THEN DeFail("Cannot interpret array as a union array")
    ELSE IF array.mode # "Dense"
    THEN DeFail("Invalid data type: only dense unions are supported")
    ELSE LET r == build_union_variants(field.children, array.children, 1, <<>>)
         IN  IF ~r.ok THEN r
             ELSE DeOk(EnumDeserializer_new(array.types, r.de))

build_array_deserializer(field, array) ==
    LET dt == field.data_type
    IN  CASE dt = "Null" -> DeOk([kind |-> "Null"])
          [] dt = "Bool" -> build_bool_deserializer(array)
          [] dt = "U8" -> build_integer_deserializer("u8", field, array)
          [] dt = "U16" -> build_integer_deserializer("u16", field, array)
          [] dt = "U32" -> build_integer_deserializer("u32", field, array)
          [] dt = "U64" -> build_integer_deserializer("u64", field, array)
          [] dt = "I8" -> build_integer_deserializer("i8", field, array)
          [] dt = "I16" -> build_integer_deserializer("i16", field, array)
          [] dt = "I32" -> build_integer_deserializer("i32", field, array)
          [] dt = "I64" -> build_integer_deserializer("i64", field, array)
          [] dt = "F32" -> build_float_deserializer("f32", field, array)
          [] dt = "F64" -> build_float_deserializer("f64", field, array)
          [] dt = "Date64" -> build_date64_deserializer(field, array)
          [] dt = "Utf8" -> build_string_deserializer("i32", array)
          [] dt = "LargeUtf8" -> build_string_deserializer("i64", array)
          [] dt = "Struct" -> build_struct_deserializer(field, array)
          [] dt = "List" -> build_list_deserializer("i32", field, array)
          [] dt = "LargeList" -> build_list_deserializer("i64", field, array)
          [] dt = "Map" -> build_map_deserializer(field, array)
          [] dt = "Union" -> build_union_deserializer(field, array)
          [] OTHER -> DeFail("Datatype is not supported for deserialization")

(***************************************************************************)
(* The inputs of deserializer construction: field descriptors and arrays   *)
(* that arrow2 can hand to the code (offsets non-empty and non-decreasing, *)
(* struct children as long as the struct, a map's entries a struct of two  *)
(* children).                                                              *)
(***************************************************************************)
MaxLen == 2
MaxFields == 2

BoundedSeqs(S, n) == UNION {[1..k -> S] : k \in 0..n}

NativeTypes ==
    {"u8", "u16", "u32", "u64", "i8", "i16", "i32", "i64", "f16", "f32",
     "f64", "i128"}

LeafClasses ==
    {<<"NullArray", "">>, <<"BooleanArray", "">>}
    \cup {<<"PrimitiveArray", T>> : T \in NativeTypes}
    \cup {<<"Utf8Array", O>> : O \in {"i32", "i64"}}
    \cup {<<"BinaryArray", O>> : O \in {"i32", "i64"}}

\* every kind of column that has a builder behind the ArrayBuilder envelope
ScalarTypes ==
    {"Null", "Bool", "I8", "I16", "I32", "I64", "U8", "U16", "U32", "U64",
     "F16", "F32", "F64", "Date32", "Date64", "Time32", "Time64", "Duration",
     "Decimal128"}

BytesTypes == {"Utf8", "LargeUtf8", "Binary", "LargeBinary"}

LeafTypes == ScalarTypes \cup BytesTypes

LeafArray(cls, len) ==
    Array(cls, len, NoValidity, <<>>, <<>>, "", <<>>, [i \in 1..len |-> i])

BoolField(name) == Field(name, "Bool", <<>>)

I64Field(name) == Field(name, "I64", <<>>)

Utf8Field(name) == Field(name, "Utf8", <<>>)

BoolArray(len) == LeafArray(<<"BooleanArray", "">>, len)

I64Array(len) == LeafArray(<<"PrimitiveArray", "i64">>, len)

Utf8Array(len) ==
    Array(<<"Utf8Array", "i32">>, len, NoValidity, <<>>, [i \in 1..(len + 1) |-> 0],
          "", <<>>, <<>>)

StructArray(len, children) ==
    Array(<<"StructArray", "">>, len, NoValidity, children, <<>>, "", <<>>, <<>>)

\* the offsets and validity of a list or map array of at most MaxLen rows
IsNonDecreasing(s) == \A i \in 1..(Len(s) - 1) : s[i] <= s[i + 1]

OffsetsBuffers ==
    {o \in UNION {[1..k -> 0..MaxLen] : k \in 1..(MaxLen + 1)} : IsNonDecreasing(o)}

Validities(len) == {NoValidity} \cup {SomeValidity(b) : b \in [1..len -> BOOLEAN]}

ListArraysOver(o) ==
    {Array(<<"ListArray", O>>, Len(o) - 1, v, <<I64Array(MaxLen)>>, o, "", <<>>, <<>>) :
        O \in {"i32", "i64"}, v \in Validities(Len(o) - 1)}

ListArrays == UNION {ListArraysOver(o) : o \in OffsetsBuffers}

MapArrays ==
    {Array(<<"MapArray", "">>, a.len, a.validity,
           <<StructArray(MaxLen, <<Utf8Array(MaxLen), I64Array(MaxLen)>>)>>,
           a.offsets, "", <<>>, <<>>) :
        a \in {x \in ListArrays : x.cls = <<"ListArray", "i32">>}}

\* the children a union array presents, and its type-id buffer: every type id
\* indexes one of the array's own children
UnionChildren ==
    {<<BoolArray(MaxLen)>>, <<BoolArray(MaxLen), I64Array(MaxLen)>>,
     <<BoolArray(MaxLen), I64Array(MaxLen), BoolArray(MaxLen)>>}

UnionArraysOver(c) ==
    {Array(<<"UnionArray", "">>, Len(t), NoValidity, c, <<>>, m, t, <<>>) :
        m \in {"Dense", "Sparse"},
        t \in UNION {[1..k -> 0..(Len(c) - 1)] : k \in 1..MaxLen}}

UnionArrays == UNION {UnionArraysOver(c) : c \in UnionChildren}

StructArrays ==
    {StructArray(1, c) :
        c \in {<<>>, <<BoolArray(1)>>, <<BoolArray(1), I64Array(1)>>,
               <<I64Array(1), BoolArray(1)>>}}

NestedArrays == ListArrays \cup MapArrays \cup UnionArrays \cup StructArrays

StructFields ==
    {Field("s", "Struct", c) :
        c \in {<<>>, <<BoolField("x")>>, <<BoolField("x"), I64Field("y")>>}}

ListFields ==
    {Field("l", t, c) :
        t \in {"List", "LargeList"},
        c \in {<<>>, <<I64Field("element")>>, <<Field("element", "Date32", <<>>)>>}}

MapFields ==
    {Field("m", "Map", <<Field("entries", "Struct", c)>>) :
        c \in {<<>>, <<Utf8Field("key")>>, <<Utf8Field("key"), I64Field("value")>>,
               <<Utf8Field("key"), I64Field("value"), BoolField("extra")>>,
               <<Utf8Field("key"), BoolField("value")>>}}
    \cup {Field("m", "Map", <<>>)}

UnionFields ==
    {Field("u", "Union", c) :
        c \in {<<BoolField("A")>>, <<BoolField("A"), I64Field("B")>>,
               <<I64Field("A"), BoolField("B")>>}}

NestedFields == StructFields \cup ListFields \cup MapFields \cup UnionFields

\* the pairs handed to build_array_deserializer
ArrayInputs ==
    ({Field("c", t, <<>>) : t \in LeafTypes} \X {LeafArray(c, 1) : c \in LeafClasses})
    \cup (NestedFields \X (NestedArrays \cup {BoolArray(1)}))

\* the fields and arrays handed to build_deserializer
TopFields ==
    {BoolField("a"), I64Field("b"), Field("s", "Struct", <<BoolField("x")>>),
     Field("s", "Struct", <<BoolField("x"), I64Field("y")>>)}

TopArrays ==
    {BoolArray(n) : n \in 0..MaxLen} \cup {I64Array(n) : n \in 1..MaxLen}
    \cup {StructArray(1, <<BoolArray(1)>>),
          StructArray(1, <<BoolArray(1), I64Array(1)>>)}

(***************************************************************************)
(* The encode-decode round trip of one column.                             *)
(***************************************************************************)
None == [some |-> FALSE]

Some(v) == [some |-> TRUE, v |-> v]

\* the arrow2 array class that stores a column of each kind
ArrayClassOf(dt) ==
    CASE dt = "Null" -> <<"NullArray", "">>
      [] dt = "Bool" -> <<"BooleanArray", "">>
      [] dt = "U8" -> <<"PrimitiveArray", "u8">>
      [] dt = "U16" -> <<"PrimitiveArray", "u16">>
      [] dt = "U32" -> <<"PrimitiveArray", "u32">>
      [] dt = "U64" -> <<"PrimitiveArray", "u64">>
      [] dt = "I8" -> <<"PrimitiveArray", "i8">>
      [] dt = "I16" -> <<"PrimitiveArray", "i16">>
      [] dt \in {"I32", "Date32", "Time32"} -> <<"PrimitiveArray", "i32">>
      [] dt \in {"I64", "Date64", "Time64", "Duration"} -> <<"PrimitiveArray", "i64">>
      [] dt = "F16" -> <<"PrimitiveArray", "f16">>
      [] dt = "F32" -> <<"PrimitiveArray", "f32">>
      [] dt = "F64" -> <<"PrimitiveArray", "f64">>
      [] dt = "Decimal128" -> <<"PrimitiveArray", "i128">>
      [] dt = "Utf8" -> <<"Utf8Array", "i32">>
      [] dt = "LargeUtf8" -> <<"Utf8Array", "i64">>
      [] dt = "Binary" -> <<"BinaryArray", "i32">>
      [] dt = "LargeBinary" -> <<"BinaryArray", "i64">>
      [] dt = "Struct" -> <<"StructArray", "">>
      [] dt = "List" -> <<"ListArray", "i32">>
      [] dt = "LargeList" -> <<"ListArray", "i64">>
      [] dt = "Map" -> <<"MapArray", "">>
      [] dt = "Union" -> <<"UnionArray", "">>

\* the scalar builders (one primitive slice and a validity bitmap each)
ScalarBuilder_new(kind, path, is_nullable) ==
    [variant |-> kind, path |-> path,
     array |-> [nullable |-> is_nullable, validity |-> <<>>, values |-> <<>>]]

ScalarBuilder_serialize_value(b, v) ==
    Ok([b EXCEPT !.array = push_validity([@ EXCEPT !.values = Append(@, v)], TRUE)])

ScalarBuilder_serialize_none(b) ==
    IF b.array.nullable
    THEN Ok([b EXCEPT !.array =
                push_validity([@ EXCEPT !.values = Append(@, 0)], FALSE)])
    ELSE Fail("cannot push null for non-nullable array", b)

BuilderValidity(a) == IF a.nullable THEN SomeValidity(a.validity) ELSE NoValidity

ScalarBuilder_into_array(b) ==
    Array(ArrayClassOf(b.variant), Len(b.array.values), BuilderValidity(b.array),
          <<>>, <<>>, "", <<>>, b.array.values)

IntBuilder_into_array(b) ==
    Array(<<"PrimitiveArray", "u8">>, Len(b.values), NoValidity, <<>>, <<>>, "",
          <<>>, b.values)

\* Array::List for ListBuilder<i32>, Array::LargeList for ListBuilder<i64>
ListBuilder_into_array(b) ==
    Array(<<"ListArray", IF b.variant = "List" THEN "i32" ELSE "i64">>,
          Len(b.offsets.offsets) - 1, BuilderValidity(b.offsets),
          <<IntBuilder_into_array(b.element)>>, b.offsets.offsets, "", <<>>, <<>>)

\* Array::Utf8 for Utf8Builder<i32>, Array::LargeUtf8 for Utf8Builder<i64>;
\* the binary builders hold the same BytesArray
Utf8Builder_into_array(b) ==
    Array(ArrayClassOf(b.variant), Len(b.array.offsets) - 1,
          BuilderValidity(b.array), <<>>, b.array.offsets, "", <<>>, b.array.data)

ArrayBuilder_new(kind, path, is_nullable) ==
    IF kind \in ListVariants
    THEN ListBuilder_new(kind, path, IntBuilder_new(path), is_nullable)
    ELSE IF kind \in BytesTypes THEN Utf8Builder_new(kind, path, is_nullable)
    ELSE ScalarBuilder_new(kind, path, is_nullable)

ArrayBuilder_into_array(b) ==
    IF b.variant \in ListVariants THEN ListBuilder_into_array(b)
    ELSE IF b.variant \in BytesTypes THEN Utf8Builder_into_array(b)
    ELSE ScalarBuilder_into_array(b)

\* the events a row value is serialized as
SerializeValue(b, val) ==
    IF b.variant \in ListVariants
    THEN (IF val.some THEN ArrayBuilder_serialize_bytes(b, val.v)
          ELSE ArrayBuilder_serialize_none(b))
    ELSE IF b.variant \in BytesTypes
    THEN (IF val.some THEN Utf8Builder_serialize_str(b, val.v)
          ELSE Utf8Builder_serialize_none(b))
    ELSE (IF val.some THEN ScalarBuilder_serialize_value(b, val.v)
          ELSE ScalarBuilder_serialize_none(b))

RECURSIVE Encoded(_, _)
Encoded(r, values) ==
    IF ~r.ok \/ values = <<>> THEN r
    ELSE Encoded(SerializeValue(r.st, Head(values)), Tail(values))

FieldOf(kind) ==
    Field("c", kind,
          IF kind \in ListVariants THEN <<Field("element", "U8", <<>>)>> ELSE <<>>)

\* the answer of a deserializer for row i (from 1): none for a null row, else
\* the row's value
RowValue(de, i) ==
    IF de.validity.some /\ ~de.validity.bits[i] THEN None
    ELSE IF de.kind \in ListVariants
    THEN Some(SubSeq(de.item.buffer, de.offsets[i] + 1, de.offsets[i + 1]))
    ELSE IF de.kind \in BytesTypes
    THEN Some(SubSeq(de.buffer, de.offsets[i] + 1, de.offsets[i + 1]))
    ELSE Some(de.buffer[i])

Decoded(kind, nullable, values) ==
    LET enc == Encoded(Ok(ArrayBuilder_new(kind, "$.c", nullable)), values)
        array == ArrayBuilder_into_array(enc.st)
        r == build_array_deserializer(FieldOf(kind), array)
    IN  IF ~enc.ok THEN [ok |-> FALSE, msg |-> enc.msg, values |-> <<>>]
        ELSE IF ~r.ok THEN [ok |-> FALSE, msg |-> r.msg, values |-> <<>>]
        ELSE [ok |-> TRUE, msg |-> "",
              values |-> [i \in 1..array.len |-> RowValue(r.de, i)]]

\* the kinds of column with a builder variant that are encoded here
RoundTripKinds == (ScalarTypes \ {"Null"}) \cup BytesTypes \cup ListVariants

RowValues(kind, nullable) ==
    (IF kind \in ListVariants \cup BytesTypes THEN {Some(v) : v \in Strs}
     ELSE {Some(v) : v \in {0, 1}})
    \cup (IF nullable THEN {None} ELSE {})

(***************************************************************************)
(* The construction state machine: one construction, then the rows of the  *)
(* outer sequence are requested one by one.                                *)
(***************************************************************************)
InitBuild ==
    /\ ab = NoBuilder
    /\ taken = NoBuilder
    /\ rows = 0
    /\ open = FALSE
    /\ fed = NoFed
    /\ bres = NoResult
    /\ bd = NoBuild
    /\ rowsRead = 0
    /\ rt = NoRoundTrip
    /\ MapIdle
    /\ OthersIdle

BuildDeserializer ==
    /\ bd = NoBuild /\ rt = NoRoundTrip
    /\ \E fields \in BoundedSeqs(TopFields, MaxFields),
          arrays \in BoundedSeqs(TopArrays, MaxFields) :
            bd' = [fn |-> "build_deserializer", fields |-> fields,
                   arrays |-> arrays, res |-> build_deserializer(fields, arrays)]
    /\ rowsRead' = 0
    /\ UNCHANGED <<bvars, rt, mvars, xvars>>

BuildArrayDeserializer ==
    /\ bd = NoBuild /\ rt = NoRoundTrip
    /\ \E in \in ArrayInputs :
            bd' = [fn |-> "build_array_deserializer", fields |-> <<in[1]>>,
                   arrays |-> <<in[2]>>,
                   res |-> build_array_deserializer(in[1], in[2])]
    /\ rowsRead' = 0
    /\ UNCHANGED <<bvars, rt, mvars, xvars>>

\* OuterSequenceDeserializer: one element request reads one row of every field
NextRow ==
    /\ bd # NoBuild
    /\ bd.fn = "build_deserializer"
    /\ bd.res.ok
    /\ rowsRead < bd.res.de.len
    /\ rowsRead' = rowsRead + 1
    /\ UNCHANGED <<bd, bvars, rt, mvars, xvars>>

\* encode values through the builder of a kind, convert with into_array, build
\* the deserializer for the same field and decode every row
RoundTrip ==
    /\ bd = NoBuild /\ rt = NoRoundTrip
    /\ \E kind \in RoundTripKinds, nullable \in BOOLEAN :
          \E values \in BoundedSeqs(RowValues(kind, nullable), MaxLen) :
            rt' = [kind |-> kind, nullable |-> nullable, input |-> values,
                   output |-> Decoded(kind, nullable, values)]
    /\ UNCHANGED <<bd, rowsRead, bvars, mvars, xvars>>

NextBuild ==
    \/ BuildDeserializer
    \/ BuildArrayDeserializer
    \/ NextRow
    \/ RoundTrip

SpecBuild == InitBuild /\ [][NextBuild]_vars

(***************************************************************************)
(* internal/deserialization/map_deserializer.rs: the operations of a       *)
(* MapDeserializer.  Each returns [d |-> the deserializer after the call,  *)
(* res |-> the answer, val |-> the value handed to the seed].              *)
(***************************************************************************)
Answer(d, res, val) == [d |-> d, res |-> res, val |-> val]

\* seed.deserialize(Mut(child)): a child deserializer answers from its cursor
\* and moves it one element forward; reading past its end is an error
ChildRead(c) ==
    IF c.next >= Len(c.buffer) THEN [ok |-> FALSE, c |-> c, val |-> 0]
    ELSE [ok |-> TRUE, c |-> [c EXCEPT !.next = @ + 1], val |-> c.buffer[c.next + 1]]

MapDeserializer_peek_next_off_by_one(d) ==
    IF d.next[1] >= Len(d.offsets) THEN "err"
    ELSE IF d.validity.some THEN bitset_is_set(d.validity, d.next[1])
    ELSE "true"

MapDeserializer_peek_next(d) ==
    IF d.next[1] + 1 >= Len(d.offsets) THEN "err"
    ELSE IF d.validity.some THEN bitset_is_set(d.validity, d.next[1])
    ELSE "true"

MapDeserializer_consume_next_rewind(d) == [d EXCEPT !.next = <<d.next[1], 0>>]

MapDeserializer_consume_next_in_place(d) ==
    [d EXCEPT !.next = <<d.next[1] + 1, 0>>,
              !.offsets = [i \in DOMAIN @ |-> IF i <= d.next[1] + 1 THEN 0 ELSE @[i]]]

MapDeserializer_consume_next(d) == [d EXCEPT !.next = <<d.next[1] + 1, 0>>]

\* visitor.visit_map(self): the visitor goes on with next_key_seed
MapDeserializer_deserialize_map(d) == Answer(d, "map", 0)

MapDeserializer_deserialize_any_stay(d) ==
    LET p == MapDeserializer_peek_next(d)
    IN  IF p = "err" THEN Answer(d, "err", 0)
        ELSE IF p = "true" THEN MapDeserializer_deserialize_map(d)
        ELSE Answer(d, "none", 0)

MapDeserializer_deserialize_any(d) ==
    LET p == MapDeserializer_peek_next(d)
    IN  IF p = "err" THEN Answer(d, "err", 0)
        ELSE IF p = "true" THEN MapDeserializer_deserialize_map(d)
        ELSE Answer(MapDeserializer_consume_next(d), "none", 0)

\* visitor.visit_some(Mut(self)): the visitor goes on with a deserialize call
MapDeserializer_deserialize_option(d) ==
    LET p == MapDeserializer_peek_next(d)
    IN  IF p = "err" THEN Answer(d, "err", 0)
        ELSE IF p = "true" THEN Answer(d, "some", 0)
        ELSE Answer(MapDeserializer_consume_next(d), "none", 0)

\* the key child is read; Ok(Some(key)) or the child's error
MapDeserializer_read_key(d) ==
    LET k == ChildRead(d.key)
    IN  IF ~k.ok THEN Answer(d, "err", 0)
        ELSE Answer([d EXCEPT !.key = k.c], "key", k.val)

MapDeserializer_next_key_seed_late(d, build) ==
    LET item == d.next[1]
        entry == d.next[2]
    IN  IF item + 1 >= Len(d.offsets) THEN Answer(d, "err", 0)
        ELSE IF entry > d.offsets[item + 2] - d.offsets[item + 1]
        THEN Answer([d EXCEPT !.next = <<item + 1, 0>>], "end", 0)
        ELSE MapDeserializer_read_key(d)

\* end - start on usize underflows when end < start: a panic with overflow
\* checks (build = "debug"), a wrapped huge value without (build = "release")
MapDeserializer_next_key_seed(d, build) ==
    LET item == d.next[1]
        entry == d.next[2]
    IN  IF item + 1 >= Len(d.offsets) THEN Answer(d, "err", 0)
        ELSE IF d.offsets[item + 1] < 0 \/ d.offsets[item + 2] < 0
        THEN Answer(d, "err", 0)
        ELSE IF d.offsets[item + 2] < d.offsets[item + 1]
        THEN (IF build = "debug" THEN Answer(d, "panic", 0)
              ELSE MapDeserializer_read_key(d))
        ELSE IF entry >= d.offsets[item + 2] - d.offsets[item + 1]
        THEN Answer([d EXCEPT !.next = <<item + 1, 0>>], "end", 0)
        ELSE MapDeserializer_read_key(d)

\* next_value_seed counting two entries for the one it reads
MapDeserializer_next_value_seed_twice(d) ==
    LET d1 == [d EXCEPT !.next = <<d.next[1], d.next[2] + 2>>]
        v == ChildRead(d1.value)
    IN  IF ~v.ok THEN Answer(d1, "err", 0)
        ELSE Answer([d1 EXCEPT !.value = v.c], "value", v.val)

MapDeserializer_next_value_seed(d) ==
    LET d1 == [d EXCEPT !.next = <<d.next[1], d.next[2] + 1>>]
        v == ChildRead(d1.value)
    IN  IF ~v.ok THEN Answer(d1, "err", 0)
        ELSE Answer([d1 EXCEPT !.value = v.c], "value", v.val)

(***************************************************************************)
(* The MapDeserializer state machine.  The consumer may call any operation *)
(* at any time; proto records whether it kept to the MapAccess protocol:   *)
(* one deserialize call per row, then next_key_seed and next_value_seed in *)
(* turn until next_key_seed answers that the row has ended.                *)
(***************************************************************************)
MaxEntry == 3

Builds == {"debug", "release"}

\* the key and value arrays of the map's entries: distinct elements
KeysArray == Array(<<"PrimitiveArray", "i64">>, MaxLen, NoValidity, <<>>, <<>>, "",
                   <<>>, [i \in 1..MaxLen |-> 10 + i])

ValuesArray == Array(<<"PrimitiveArray", "i64">>, MaxLen, NoValidity, <<>>, <<>>, "",
                     <<>>, [i \in 1..MaxLen |-> 20 + i])

\* every offsets slice of at most MaxLen rows, supported layout or not
OffsetsSlices == UNION {[1..k -> 0..MaxLen] : k \in 0..(MaxLen + 1)}

RowCount(o) == IF Len(o) = 0 THEN 0 ELSE Len(o) - 1

MapInputs ==
    UNION {{<<o, v>> : v \in Validities(RowCount(o))} : o \in OffsetsSlices}

InitMap ==
    /\ ab = NoBuilder
    /\ taken = NoBuilder
    /\ rows = 0
    /\ open = FALSE
    /\ fed = NoFed
    /\ bres = NoResult
    /\ bd = NoBuild
    /\ rowsRead = 0
    /\ rt = NoRoundTrip
    /\ \E in \in MapInputs :
          md = MapDeserializer_new("$.m", LeafDeserializer("I64", KeysArray),
                                   LeafDeserializer("I64", ValuesArray),
                                   in[1], in[2]).de
    /\ mres = NoCall
    /\ phase = "row"
    /\ proto = TRUE
    /\ mlog = NoLog
    /\ OthersIdle

Constructed == md # NoDe

Call(op, a) == [op |-> op, at |-> md.next, res |-> a.res, val |-> a.val]

\* the consumer-side record of the row being visited; it is dropped once the
\* consumer has left the protocol
Track(p, ph, log) ==
    /\ proto' = p
    /\ phase' = IF p THEN ph ELSE "row"
    /\ mlog' = IF p THEN log ELSE NoLog

PeekNext ==
    /\ Constructed
    /\ mres' = [op |-> "peek_next", at |-> md.next,
                res |-> MapDeserializer_peek_next(md), val |-> 0]
    /\ UNCHANGED <<md, phase, proto, mlog, bvars, cvars, xvars>>

ConsumeNext ==
    /\ Constructed
    /\ md.next[1] < Len(md.offsets)
    /\ md' = MapDeserializer_consume_next(md)
    /\ mres' = [op |-> "consume_next", at |-> md.next, res |-> "unit", val |-> 0]
    /\ Track(FALSE, phase, mlog)
    /\ UNCHANGED <<bvars, cvars, xvars>>

\* the effect of a deserialize call that starts a row
StartRow(op, a) ==
    /\ md' = a.d
    /\ mres' = Call(op, a)
    /\ Track(proto /\ (phase = "row" \/ (phase = "some" /\ op # "deserialize_option")),
             IF a.res = "map" THEN "key"
             ELSE IF a.res = "some" THEN "some"
             ELSE IF a.res = "none" THEN "row"
             ELSE phase,
             IF a.res = "map"
             THEN [row |-> md.next[1], entries |-> <<>>, key |-> 0,
                   complete |-> FALSE]
             ELSE mlog)
    /\ UNCHANGED <<bvars, cvars, xvars>>

DeserializeAny ==
    /\ Constructed
    /\ StartRow("deserialize_any", MapDeserializer_deserialize_any(md))

DeserializeOption ==
    /\ Constructed
    /\ StartRow("deserialize_option", MapDeserializer_deserialize_option(md))

DeserializeMap ==
    /\ Constructed
    /\ StartRow("deserialize_map", MapDeserializer_deserialize_map(md))

NextKeySeed ==
    /\ Constructed
    /\ \E build \in Builds :
          LET a == MapDeserializer_next_key_seed(md, build)
          IN  /\ md' = a.d
              /\ mres' = Call("next_key_seed", a)
              /\ Track(proto /\ phase = "key" /\ a.res \in {"key", "end"},
                       IF a.res = "key" THEN "value" ELSE "row",
                       IF a.res = "key" THEN [mlog EXCEPT !.key = a.val]
                       ELSE [mlog EXCEPT !.complete = TRUE])
    /\ UNCHANGED <<bvars, cvars, xvars>>

NextValueSeed ==
    /\ Constructed
    /\ md.next[2] < MaxEntry
    /\ LET a == MapDeserializer_next_value_seed(md)
       IN  /\ md' = a.d
           /\ mres' = Call("next_value_seed", a)
           /\ Track(proto /\ phase = "value" /\ a.res = "value", "key",
                    [mlog EXCEPT !.entries = Append(@, <<mlog.key, a.val>>)])
    /\ UNCHANGED <<bvars, cvars, xvars>>

NextMap ==
    \/ PeekNext
    \/ ConsumeNext
    \/ DeserializeAny
    \/ DeserializeOption
    \/ DeserializeMap
    \/ NextKeySeed
    \/ NextValueSeed

SpecMap == InitMap /\ [][NextMap]_vars

(***************************************************************************)
(* C4: once the row cursor of a MapDeserializer over N rows has reached N, *)
(* every peek_next, deserialize_any, deserialize_option and next_key_seed  *)
(* returns an error and leaves the cursor where it is.                     *)
(***************************************************************************)
ExhaustionIsFatal ==
    (/\ Constructed
     /\ mres.op \in {"peek_next", "deserialize_any", "deserialize_option",
                     "next_key_seed"}
     /\ mres.at[1] >= Len(md.offsets) - 1) =>
        /\ mres.res = "err"
        /\ md.next = mres.at

ExhaustionWitness ==
    /\ Constructed /\ proto
    /\ Len(md.offsets) = 3
    /\ mres.op = "deserialize_any"
    /\ mres.at = <<2, 0>>
    /\ mres.res = "err"
    /\ md.key.next = 2

(***************************************************************************)
(* C10: reading row i through a MapDeserializer (next_key_seed and         *)
(* next_value_seed in turn until the row ends, rows in order) yields       *)
(* offsets[i+1] - offsets[i] entries, the j-th of them the key and the     *)
(* value at position offsets[i] + j of the key and value children.         *)
(***************************************************************************)
EntriesFollowOffsets ==
    (Constructed /\ proto) =>
        LET start == md.offsets[mlog.row + 1]
            end == md.offsets[mlog.row + 2]
        IN  /\ mlog.complete => Len(mlog.entries) = end - start
            /\ \A j \in 1..Len(mlog.entries) :
                  mlog.entries[j] = <<KeysArray.data[start + j], ValuesArray.data[start + j]>>

(***************************************************************************)
(* C5: build_deserializer (and build_struct_fields for nested structs)     *)
(* returns an error and no deserializer whenever the number of fields      *)
(* differs from the number of arrays or an array's length differs from the *)
(* first array's, and does so before any row is read.                      *)
(***************************************************************************)
RECURSIVE ArityMismatch(_, _)
ArityMismatch(fields, arrays) ==
    \/ Len(fields) # Len(arrays)
    \/ \E i \in 1..Len(arrays) : arrays[i].len # arrays[1].len
    \/ \E i \in 1..Len(fields) :
          /\ fields[i].data_type = "Struct"
          /\ arrays[i].cls = <<"StructArray", "">>
          /\ ArityMismatch(fields[i].children, arrays[i].children)

ArityErrorAtConstruction ==
    (bd # NoBuild /\ bd.fn = "build_deserializer"
        /\ ArityMismatch(bd.fields, bd.arrays)) =>
            /\ ~bd.res.ok
            /\ bd.res.de = NoDe
            /\ rowsRead = 0

ArityErrorWitness ==
    /\ bd # NoBuild /\ bd.fn = "build_deserializer"
    /\ Len(bd.fields) = 2 /\ Len(bd.arrays) = 2
    /\ bd.arrays[1].len # bd.arrays[2].len
    /\ bd.arrays[1].cls = <<"BooleanArray", "">>
    /\ bd.fields[1].data_type = "Bool"
    /\ ~bd.res.ok

(***************************************************************************)
(* C6: build_array_deserializer returns an error whenever the array's      *)
(* physical kind is not the one the field declares, or a union array is    *)
(* not dense, or the construction of a nested child fails.                 *)
(***************************************************************************)
\* the (descriptor, array) pairs of the nested children of a matching pair
ChildPairs(field, array) ==
    LET dt == field.data_type
        fs == IF dt = "Map"
              THEN (IF field.children = <<>> THEN <<>> ELSE field.children[1].children)
              ELSE field.children
        as == IF dt = "Map" THEN array.children[1].children ELSE array.children
        n == IF Len(fs) < Len(as) THEN Len(fs) ELSE Len(as)
    IN  {<<fs[i], as[i]>> : i \in 1..n}

WrongKindIsAnError ==
    (bd # NoBuild /\ bd.fn = "build_array_deserializer") =>
        LET field == bd.fields[1]
            array == bd.arrays[1]
        IN  (\/ array.cls # ArrayClassOf(field.data_type)
             \/ (field.data_type = "Union" /\ array.mode # "Dense")
             \/ \E p \in ChildPairs(field, array) :
                    ~build_array_deserializer(p[1], p[2]).ok)
                => (~bd.res.ok /\ bd.res.de = NoDe)

(***************************************************************************)
(* C7: constructing a struct, map or union deserializer fails whenever the *)
(* number of child descriptors differs from the number of child arrays,    *)
(* in either direction.                                                    *)
(***************************************************************************)
NumChildDescriptors(field) ==
    IF field.data_type = "Map"
    THEN (IF field.children = <<>> THEN 0 ELSE Len(field.children[1].children))
    ELSE Len(field.children)

NumChildArrays(field, array) ==
    IF field.data_type = "Map" THEN Len(array.children[1].children)
    ELSE Len(array.children)

ChildArityIsChecked ==
    (bd # NoBuild /\ bd.fn = "build_array_deserializer") =>
        LET field == bd.fields[1]
            array == bd.arrays[1]
        IN  (/\ field.data_type \in {"Struct", "Map", "Union"}
             /\ array.cls = ArrayClassOf(field.data_type)
             /\ NumChildDescriptors(field) # NumChildArrays(field, array))
                => ~bd.res.ok

(***************************************************************************)
(* C8: build_union_deserializer fails at construction whenever a row's     *)
(* type id does not index a declared variant, so every union deserializer  *)
(* that was built has only type ids of declared variants.                  *)
(***************************************************************************)
TypeIdsIndexVariants ==
    (bd # NoBuild /\ bd.fn = "build_array_deserializer"
        /\ bd.fields[1].data_type = "Union") =>
        LET field == bd.fields[1]
            array == bd.arrays[1]
        IN  /\ (/\ array.cls = <<"UnionArray", "">>
                /\ \E i \in 1..Len(array.types) :
                      array.types[i] < 0 \/ array.types[i] >= Len(field.children))
                  => ~bd.res.ok
            /\ bd.res.ok =>
                  \A i \in 1..Len(bd.res.de.type_ids) :
                      /\ bd.res.de.type_ids[i] >= 0
                      /\ bd.res.de.type_ids[i] < Len(bd.res.de.variants)

(***************************************************************************)
(* C9: the list/map layout is validated at construction: every list or map *)
(* deserializer that exists has offsets of length >= 1 that are            *)
(* non-decreasing, with zero-width null rows.                              *)
(***************************************************************************)
LayoutIsValidated ==
    (bd # NoBuild /\ bd.fn = "build_array_deserializer" /\ bd.res.ok
        /\ bd.res.de.kind \in {"List", "LargeList", "Map"}) =>
        LET offsets == bd.res.de.offsets
            validity == bd.res.de.validity
        IN  /\ Len(offsets) >= 1
            /\ \A i \in 1..(Len(offsets) - 1) : offsets[i] <= offsets[i + 1]
            /\ validity.some =>
                  \A i \in 1..(Len(offsets) - 1) :
                      ~validity.bits[i] => offsets[i + 1] = offsets[i]

(***************************************************************************)
(* C3: for every kind of column with an ArrayBuilder variant, encoding a   *)
(* sequence of values (None rows included), converting with into_array     *)
(* and decoding with the deserializer of build_array_deserializer for the  *)
(* same field reproduces the sequence, nullable or not.                    *)
(***************************************************************************)
RoundTripReproduces ==
    rt # NoRoundTrip => (rt.output.ok /\ rt.output.values = rt.input)

(***************************************************************************)
(* C11: next_key_seed called at cursor (i, j) with row i in bounds and      *)
(* j >= offsets[i+1] - offsets[i] answers Ok(None), moves the cursor to     *)
(* (i+1, 0) and leaves the key and value child deserializers as they were.  *)
(***************************************************************************)
EndOfRowIsSignalled ==
    [][(/\ NextKeySeed
        /\ md.next[1] + 1 < Len(md.offsets)
        /\ md.next[2] >= md.offsets[md.next[1] + 2] - md.offsets[md.next[1] + 1])
       => (/\ mres'.res = "end"
           /\ md'.next = <<md.next[1] + 1, 0>>
           /\ md'.key = md.key
           /\ md'.value = md.value)]_vars

\* a row of two entries was read through and next_key_seed then ended it
EndOfRowWitness ==
    /\ Constructed /\ proto
    /\ mres.op = "next_key_seed" /\ mres.res = "end"
    /\ mres.at[2] = 2
    /\ Len(mlog.entries) = 2 /\ mlog.complete
    /\ md.next = <<mres.at[1] + 1, 0>>
    /\ md.key.next = 2 /\ md.value.next = 2

(***************************************************************************)
(* internal/deserialization/utils: ArrayBufferIterator<T>, a buffer, its    *)
(* validity and the position of the next row.                               *)
(***************************************************************************)
ArrayBufferIterator_new(buffer, validity) ==
    [buffer |-> buffer, validity |-> validity, next |-> 0]

\* Result<bool>: "err" when exhausted, else whether the next row is valid
ArrayBufferIterator_peek_next(it) ==
    IF it.next >= Len(it.buffer) THEN "err"
    ELSE IF it.validity.some THEN bitset_is_set(it.validity, it.next)
    ELSE "true"

ArrayBufferIterator_consume_next(it) == [it EXCEPT !.next = @ + 1]

\* Result<T>: the value of the next row, which must exist and be valid
ArrayBufferIterator_next_required(it) ==
    IF ArrayBufferIterator_peek_next(it) # "true"
    THEN [ok |-> FALSE, it |-> it, val |-> 0]
    ELSE [ok |-> TRUE, it |-> ArrayBufferIterator_consume_next(it),
          val |-> it.buffer[it.next + 1]]

(***************************************************************************)
(* internal/deserialization/date32_deserializer.rs                         *)
(***************************************************************************)
Date32Deserializer_new(path, buffer, validity) ==
    [kind |-> "Date32", path |-> path,
     array |-> ArrayBufferIterator_new(buffer, validity)]

Date32Deserializer_annotations(d) ==
    {<<"path", d.path>>, <<"data_type", "Date32">>}

\* visitor.visit_i32(self.array.next_required()?)
Date32Deserializer_deserialize_i32(d) ==
    LET r == ArrayBufferIterator_next_required(d.array)
    IN  IF ~r.ok THEN Answer(d, "err", 0)
        ELSE Answer([d EXCEPT !.array = r.it], "i32", r.val)

Date32Deserializer_deserialize_any(d) ==
    LET p == ArrayBufferIterator_peek_next(d.array)
    IN  IF p = "err" THEN Answer(d, "err", 0)
        ELSE IF p = "true" THEN Date32Deserializer_deserialize_i32(d)
        ELSE Answer([d EXCEPT !.array = ArrayBufferIterator_consume_next(@)],
                    "none", 0)

\* visitor.visit_some(Mut(self)): the visitor goes on with a deserialize call
Date32Deserializer_deserialize_option(d) ==
    LET p == ArrayBufferIterator_peek_next(d.array)
    IN  IF p = "err" THEN Answer(d, "err", 0)
        ELSE IF p = "true" THEN Answer(d, "some", 0)
        ELSE Answer([d EXCEPT !.array = ArrayBufferIterator_consume_next(@)],
                    "none", 0)

\* chrono's NaiveDate for a day count inside its range, as (year, month,
\* day) of the proleptic Gregorian calendar: the count is split into 400-year
\* eras of 146097 days, the year of the era and the day of a year that
\* starts on March 1st
NaiveDate_from_days(z) ==
    LET s    == z + 719468
        era  == s \div 146097
        doe  == s - era * 146097
        yoe  == (doe - doe \div 1460 + doe \div 36524 - doe \div 146096) \div 365
        doy  == doe - (365 * yoe + yoe \div 4 - yoe \div 100)
        mp   == (5 * doy + 2) \div 153
        m    == IF mp < 10 THEN mp + 3 ELSE mp - 9
    IN  [year  |-> yoe + era * 400 + (IF m <= 2 THEN 1 ELSE 0),
         month |-> m,
         day   |-> doy - (153 * mp + 2) \div 5 + 1]

\* two decimal digits, zero padded
write_hundreds(n) == IF n < 10 THEN "0" \o ToString(n) ELSE ToString(n)

\* NaiveDate's Display: the year with four digits, or with an explicit sign
\* and at least four digits outside 0..9999, then -MM-DD
NaiveDate_to_string(date) ==
    LET y   == date.year
        abs == IF y < 0 THEN 0 - y ELSE y
        yr  == IF y >= 0 /\ y <= 9999
               THEN write_hundreds(y \div 100) \o write_hundreds(y % 100)
               ELSE (IF y < 0 THEN "-" ELSE "+") \o
                    (IF abs < 1000 THEN "0" ELSE "") \o
                    (IF abs < 100 THEN "0" ELSE "") \o
                    (IF abs < 10 THEN "0" ELSE "") \o ToString(abs)
    IN  yr \o "-" \o write_hundreds(date.month) \o "-" \o write_hundreds(date.day)

\* UNIX_EPOCH + Duration::days(ts as i64), then date.to_string().  The
\* addition is NaiveDate's Add, which panics when the sum leaves the range
\* of NaiveDate (about 262000 years to either side of the epoch); the
\* deserializer d is read nowhere
Date32Deserializer_get_string_repr(d, ts) ==
    IF ts < -96465293 \/ ts > 95026236
    THEN [res |-> "panic", val |-> ""]
    ELSE [res |-> "ok", val |-> NaiveDate_to_string(NaiveDate_from_days(ts))]

\* let ts = self.array.next_required()?;
\* visitor.visit_string(self.get_string_repr(ts)?)
Date32Deserializer_deserialize_string(d) ==
    LET r == ArrayBufferIterator_next_required(d.array)
        s == Date32Deserializer_get_string_repr(d, r.val)
    IN  IF ~r.ok THEN Answer(d, "err", 0)
        ELSE IF s.res = "panic" THEN Answer([d EXCEPT !.array = r.it], "panic", 0)
        ELSE Answer([d EXCEPT !.array = r.it], "string", s.val)

\* self.deserialize_string(visitor)
Date32Deserializer_deserialize_str(d) == Date32Deserializer_deserialize_string(d)

(***************************************************************************)
(* The Date32Deserializer state machine, and the machine of the nullable   *)
(* deserializers: one MapDeserializer or one Date32Deserializer, driven by  *)
(* a consumer that may call any operation at any time.                      *)
(***************************************************************************)
\* the days-since-epoch buffers of at most MaxLen rows
Date32Buffers == {[i \in 1..k |-> 100 + i] : k \in 0..MaxLen}

Date32Inputs == UNION {{<<b, v>> : v \in Validities(Len(b))} : b \in Date32Buffers}

InitDate32 ==
    /\ ab = NoBuilder
    /\ taken = NoBuilder
    /\ rows = 0
    /\ open = FALSE
    /\ fed = NoFed
    /\ bres = NoResult
    /\ bd = NoBuild
    /\ rowsRead = 0
    /\ rt = NoRoundTrip
    /\ MapIdle
    /\ \E in \in Date32Inputs : dd = Date32Deserializer_new("$.d", in[1], in[2])
    /\ dres = NoCall
    /\ PairIdle
    /\ TracingIdle

Date32Call(op, a) ==
    /\ dd # NoDate32
    /\ dd' = a.d
    /\ dres' = [op |-> op, at |-> <<dd.array.next, 0>>, res |-> a.res, val |-> a.val]
    /\ UNCHANGED <<bvars, cvars, mvars, pvars, tvars>>

Date32DeserializeAny ==
    Date32Call("deserialize_any", Date32Deserializer_deserialize_any(dd))

Date32DeserializeOption ==
    Date32Call("deserialize_option", Date32Deserializer_deserialize_option(dd))

Date32DeserializeI32 ==
    Date32Call("deserialize_i32", Date32Deserializer_deserialize_i32(dd))

InitNullable == InitMap \/ InitDate32

NextNullable ==
    \/ PeekNext
    \/ ConsumeNext
    \/ DeserializeAny
    \/ DeserializeOption
    \/ DeserializeMap
    \/ NextKeySeed
    \/ NextValueSeed
    \/ Date32DeserializeAny
    \/ Date32DeserializeOption
    \/ Date32DeserializeI32

SpecNullable == InitNullable /\ [][NextNullable]_vars

(***************************************************************************)
(* The Date32Deserializer read as strings: the day counts lie on both sides *)
(* of the epoch, on a leap day, on the first day of the year 10000 and at   *)
(* the two ends of the 32-bit range.                                        *)
(***************************************************************************)
\* i32::MIN is written as i32::MAX negated, less one
DayCounts == {-2147483647 - 1, -1, 0, 59, 11016, 2932897, 2147483647}

\* the rows hold a day before the epoch, a leap day or the last 32-bit day
RowDayCounts == {-1, 11016, 2147483647}

DayBuffers == UNION {[1..k -> RowDayCounts] : k \in 0..MaxLen}

DayInputs == UNION {{<<b, v>> : v \in Validities(Len(b))} : b \in DayBuffers}

InitDates ==
    /\ ab = NoBuilder
    /\ taken = NoBuilder
    /\ rows = 0
    /\ open = FALSE
    /\ fed = NoFed
    /\ bres = NoResult
    /\ bd = NoBuild
    /\ rowsRead = 0
    /\ rt = NoRoundTrip
    /\ MapIdle
    /\ \E in \in DayInputs : dd = Date32Deserializer_new("$.d", in[1], in[2])
    /\ dres = NoCall
    /\ PairIdle
    /\ TracingIdle

Date32DeserializeStr ==
    Date32Call("deserialize_str", Date32Deserializer_deserialize_str(dd))

Date32DeserializeString ==
    Date32Call("deserialize_string", Date32Deserializer_deserialize_string(dd))

\* get_string_repr takes &self and a day count: the answer is recorded with
\* the day count it was asked for, the deserializer is left as it is
Date32GetStringRepr(ts) ==
    LET s == Date32Deserializer_get_string_repr(dd, ts)
    IN  /\ dd # NoDate32
        /\ dd' = dd
        /\ dres' = [op |-> "get_string_repr", at |-> <<dd.array.next, ts>>,
                    res |-> IF s.res = "ok" THEN "string" ELSE s.res,
                    val |-> s.val]
        /\ UNCHANGED <<bvars, cvars, mvars, pvars, tvars>>

NextDates ==
    \/ Date32DeserializeAny
    \/ Date32DeserializeOption
    \/ Date32DeserializeI32
    \/ Date32DeserializeStr
    \/ Date32DeserializeString
    \/ \E ts \in DayCounts : Date32GetStringRepr(ts)

SpecDates == InitDates /\ [][NextDates]_vars

(***************************************************************************)
(* C12: deserialize_any and deserialize_option of a MapDeserializer and of  *)
(* a Date32Deserializer on a null row answer none, advance the row cursor   *)
(* by one and leave the map's key and value children untouched; on a valid  *)
(* row they do not answer none: deserialize_any goes on with deserialize_map*)
(* (resp. deserialize_i32) and deserialize_option hands the deserializer    *)
(* itself to the visitor.                                                   *)
(***************************************************************************)
MapRowInBounds == md.next[1] + 1 < Len(md.offsets)

MapRowIsNull == md.validity.some /\ ~md.validity.bits[md.next[1] + 1]

Date32RowInBounds == dd.array.next < Len(dd.array.buffer)

Date32RowIsNull == dd.array.validity.some /\ ~dd.array.validity.bits[dd.array.next + 1]

NullRowsAnswerNone ==
    [][/\ ((DeserializeAny \/ DeserializeOption) /\ MapRowInBounds) =>
            IF MapRowIsNull
            THEN /\ mres'.res = "none"
                 /\ md'.next = <<md.next[1] + 1, 0>>
                 /\ md'.key = md.key /\ md'.value = md.value
            ELSE /\ mres'.res = IF DeserializeAny THEN "map" ELSE "some"
                 /\ md' = md
       /\ ((Date32DeserializeAny \/ Date32DeserializeOption) /\ Date32RowInBounds) =>
            IF Date32RowIsNull
            THEN /\ dres'.res = "none"
                 /\ dd'.array.next = dd.array.next + 1
            ELSE IF Date32DeserializeAny
            THEN /\ dres'.res = "i32"
                 /\ dres'.val = dd.array.buffer[dd.array.next + 1]
                 /\ dd'.array.next = dd.array.next + 1
            ELSE /\ dres'.res = "some"
                 /\ dd' = dd]_vars

\* a null map row was skipped after a row with entries was read
NullMapRowWitness ==
    /\ Constructed
    /\ mres.op = "deserialize_any" /\ mres.res = "none"
    /\ mres.at = <<1, 0>> /\ md.next = <<2, 0>>
    /\ md.key.next = 1 /\ md.value.next = 1

(***************************************************************************)
(* C13: the cursor (row, entry) of a MapDeserializer never moves backward   *)
(* in lexicographic order: peek_next leaves it, consume_next and an         *)
(* end-of-row next_key_seed move it to (row + 1, 0), next_value_seed moves  *)
(* it to (row, entry + 1).                                                  *)
(***************************************************************************)
CursorNeverMovesBack ==
    [][Constructed =>
        /\ \/ md'.next[1] > md.next[1]
           \/ md'.next[1] = md.next[1] /\ md'.next[2] >= md.next[2]
        /\ PeekNext => md'.next = md.next
        /\ ConsumeNext => md'.next = <<md.next[1] + 1, 0>>
        /\ (NextKeySeed /\ mres'.res = "end") => md'.next = <<md.next[1] + 1, 0>>
        /\ (NextKeySeed /\ mres'.res # "end") => md'.next = md.next
        /\ NextValueSeed => md'.next = <<md.next[1], md.next[2] + 1>>]_vars

\* in the second row, the value of its first entry was read
CursorWitness ==
    /\ Constructed
    /\ mres.op = "next_value_seed" /\ mres.res = "value"
    /\ mres.at = <<1, 0>>
    /\ md.next = <<1, 1>>


(***************************************************************************)
(* C14: every error an emission method of the envelope returns carries one *)
(* field-path annotation, the path of the innermost builder that failed:   *)
(* the element builder's path when the element failed, the builder's own   *)
(* path otherwise; the variant-start events are no exception.              *)
(***************************************************************************)
FieldAnnotations(r) == {a \in r.annotations : a[1] = "field"}

\* the path of the builder in which the failure bres arose
FailingPath ==
    IF bres.msg = "out of range integral type conversion attempted"
    THEN ab.element.path
    ELSE ab.path

ErrorsCarryInnermostPath ==
    (bres # NoResult /\ ~bres.ok) =>
        FieldAnnotations(bres) = {<<"field", FailingPath>>}

InnermostPathWitness ==
    /\ bres # NoResult /\ ~bres.ok
    /\ IsList(ab) /\ open
    /\ ab.element.path # ab.path
    /\ FieldAnnotations(bres) = {<<"field", ab.element.path>>}
(***************************************************************************)
(* C15: every error a builder reports through the envelope carries both    *)
(* the column's dotted field path and the column's declared kind.          *)
(***************************************************************************)
KindAnnotations(r) == {a \in r.annotations : a[1] = "data_type"}

ErrorsCarryPathAndKind ==
    (bres # NoResult /\ ~bres.ok) =>
        /\ FieldAnnotations(bres) # {}
        /\ KindAnnotations(bres) # {}
(***************************************************************************)
(* C16: on a Utf8 builder each variant-with-data event (newtype variant,   *)
(* struct variant start, tuple variant start) returns an error annotated   *)
(* with the builder's path and leaves the builder, with its rows, offsets  *)
(* and validity, as it was before the call.                                *)
(***************************************************************************)
VariantWithDataEvent ==
    \/ SerializeNewtypeVariant
    \/ SerializeStructVariantStart
    \/ SerializeTupleVariantStart

VariantEventsFailCleanly ==
    [][(VariantWithDataEvent /\ ~IsList(ab)) =>
          /\ ~bres'.ok
          /\ bres'.annotations = {<<"field", ab.path>>}
          /\ ab' = ab
          /\ rows' = rows /\ taken' = taken]_vars

VariantEventWitness ==
    /\ bres # NoResult /\ ~bres.ok
    /\ bres.msg = "Cannot serialize enum with data as string"
    /\ ~IsList(ab)
    /\ rows = 1 /\ NumRows(ab) = 1 /\ Last(BOffsets(ab)) > 0
    /\ bres.annotations = {<<"field", ab.path>>}
(***************************************************************************)
(* C17: take returns a builder of the same variant, path and nullability   *)
(* holding exactly the rows accumulated before the call, and leaves the    *)
(* original with zero rows and the same variant, path and nullability; the *)
(* element builder of a list is taken with it and left empty.              *)
(***************************************************************************)
SameShape(a, b) ==
    /\ a.variant = b.variant
    /\ a.path = b.path
    /\ ArrayBuilder_is_nullable(a) = ArrayBuilder_is_nullable(b)
    /\ IsList(b) => (a.element.variant = b.element.variant
                       /\ a.element.path = b.element.path)

TakeSplitsRows ==
    [][Take =>
          /\ SameShape(taken', ab)
          /\ BOffsets(taken') = BOffsets(ab)
          /\ BValidity(taken') = BValidity(ab)
          /\ IF IsList(ab) THEN taken'.element.values = ab.element.values
                           ELSE taken'.array.data = ab.array.data
          /\ SameShape(ab', ab)
          /\ NumRows(ab') = 0
          /\ BOffsets(ab') = <<0>> /\ BValidity(ab') = <<>>
          /\ IF IsList(ab) THEN ab'.element.values = <<>>
                           ELSE ab'.array.data = <<>>]_vars

TakeWitness ==
    /\ taken # NoBuilder /\ IsList(taken)
    /\ NumRows(taken) = 2 /\ Len(taken.element.values) > 0
    /\ ArrayBuilder_is_nullable(taken) /\ ArrayBuilder_is_nullable(ab)
    /\ rows = 0 /\ NumRows(ab) = 0 /\ ab.element.values = <<>>
(***************************************************************************)
(* Two MapDeserializer instances over the same buffers.  shared is the     *)
(* memory the instances borrow (offsets, validity, the key and value       *)
(* buffers); inst[p] is the instance of process p, whose borrowed fields   *)
(* are read from, and written back to, shared at every call; solo[p] is a  *)
(* replica of instance p with buffers of its own, given the same calls.    *)
(***************************************************************************)
Procs == {1, 2}

PairOffsets == {<<0, 1, 2>>, <<0, 0, 2>>, <<0, 2, 2>>}

PairValidities == {NoValidity, SomeValidity(<<TRUE, FALSE>>)}

PairInputs ==
    {in \in PairOffsets \X PairValidities :
        check_supported_list_layout(in[2], in[1])}

Memory(d) ==
    [offsets |-> d.offsets, validity |-> d.validity,
     keys |-> d.key.buffer, values |-> d.value.buffer]

\* the instance as its methods see it: its own cursors over the borrowed memory
Deref(d, mem) ==
    [d EXCEPT !.offsets = mem.offsets, !.validity = mem.validity,
              !.key.buffer = mem.keys, !.value.buffer = mem.values]

Cursor(d) == <<d.next, d.key.next, d.value.next>>

InitPair ==
    /\ ab = NoBuilder
    /\ taken = NoBuilder
    /\ rows = 0
    /\ open = FALSE
    /\ fed = NoFed
    /\ bres = NoResult
    /\ bd = NoBuild
    /\ rowsRead = 0
    /\ rt = NoRoundTrip
    /\ MapIdle
    /\ dd = NoDate32
    /\ dres = NoCall
    /\ \E in \in PairInputs :
          LET d == MapDeserializer_new("$.m", LeafDeserializer("I64", KeysArray),
                                       LeafDeserializer("I64", ValuesArray),
                                       in[1], in[2]).de
          IN  /\ shared = Memory(d)
              /\ inst = <<d, d>>
              /\ solo = <<d, d>>
    /\ ans = NoAnswer
    /\ TracingIdle

\* process p calls an operation on its instance; a is the operation applied
\* to the instance over the shared memory, b to the replica; ans records the
\* caller and whether the two answers (result and value) are the same
PairCall(p, a, b) ==
    /\ inst' = [inst EXCEPT ![p] = a.d]
    /\ shared' = Memory(a.d)
    /\ solo' = [solo EXCEPT ![p] = b.d]
    /\ ans' = [p |-> p, same |-> (a.res = b.res /\ a.val = b.val)]
    /\ UNCHANGED <<bvars, cvars, mvars, dvars, tvars>>

PairPeekNext(p) ==
    /\ inst # <<>>
    /\ LET d == Deref(inst[p], shared)
       IN  PairCall(p, Answer(d, MapDeserializer_peek_next(d), 0),
                    Answer(solo[p], MapDeserializer_peek_next(solo[p]), 0))

PairConsumeNext(p) ==
    /\ inst # <<>>
    /\ inst[p].next[1] < Len(shared.offsets)
    /\ PairCall(p, Answer(MapDeserializer_consume_next(Deref(inst[p], shared)), "unit", 0),
                Answer(MapDeserializer_consume_next(solo[p]), "unit", 0))

PairDeserializeAny(p) ==
    /\ inst # <<>>
    /\ PairCall(p, MapDeserializer_deserialize_any(Deref(inst[p], shared)),
                MapDeserializer_deserialize_any(solo[p]))

PairDeserializeOption(p) ==
    /\ inst # <<>>
    /\ PairCall(p, MapDeserializer_deserialize_option(Deref(inst[p], shared)),
                MapDeserializer_deserialize_option(solo[p]))

PairDeserializeMap(p) ==
    /\ inst # <<>>
    /\ PairCall(p, MapDeserializer_deserialize_map(Deref(inst[p], shared)),
                MapDeserializer_deserialize_map(solo[p]))

PairNextKeySeed(p) ==
    /\ inst # <<>>
    /\ \E build \in Builds :
          PairCall(p, MapDeserializer_next_key_seed(Deref(inst[p], shared), build),
                   MapDeserializer_next_key_seed(solo[p], build))

PairNextValueSeed(p) ==
    /\ inst # <<>>
    /\ inst[p].next[2] < MaxEntry
    /\ PairCall(p, MapDeserializer_next_value_seed(Deref(inst[p], shared)),
                MapDeserializer_next_value_seed(solo[p]))

NextPair ==
    \/ \E p \in Procs : PairPeekNext(p)
    \/ \E p \in Procs : PairConsumeNext(p)
    \/ \E p \in Procs : PairDeserializeAny(p)
    \/ \E p \in Procs : PairDeserializeOption(p)
    \/ \E p \in Procs : PairDeserializeMap(p)
    \/ \E p \in Procs : PairNextKeySeed(p)
    \/ \E p \in Procs : PairNextValueSeed(p)

SpecPair == InitPair /\ [][NextPair]_vars

TracingModes == {"Unknown", "FromType", "FromSamples"}

\* Overwrites(HashMap<String, GenericField>): a function on its keys
Overwrites_default == [k \in {} |-> 0]

HashMap_insert(m, k, v) ==
    [x \in DOMAIN m \cup {k} |-> IF x = k THEN v ELSE m[x]]

HashMap_get(m, k) == IF k \in DOMAIN m THEN Some(m[k]) ELSE None

TracingOptions_default_flat ==
    [allow_null_fields |-> FALSE,
     map_as_struct |-> FALSE,
     string_dictionary_encoding |-> FALSE,
     coerce_numbers |-> FALSE,
     guess_dates |-> FALSE,
     from_type_budget |-> 100,
     enums_without_data_as_strings |-> FALSE,
     overwrites |-> Overwrites_default,
     sequence_as_large_list |-> TRUE,
     tracing_mode |-> "Unknown"]

TracingOptions_default ==
    [allow_null_fields |-> FALSE,
     map_as_struct |-> TRUE,
     string_dictionary_encoding |-> FALSE,
     coerce_numbers |-> FALSE,
     guess_dates |-> FALSE,
     from_type_budget |-> 100,
     enums_without_data_as_strings |-> FALSE,
     overwrites |-> Overwrites_default,
     sequence_as_large_list |-> TRUE,
     tracing_mode |-> "Unknown"]

TracingOptions_new == TracingOptions_default

TracingOptions_allow_null_fields(o, value) ==
    [o EXCEPT !.allow_null_fields = value]

TracingOptions_map_as_struct(o, value) == [o EXCEPT !.map_as_struct = value]

TracingOptions_sequence_as_large_list(o, value) ==
    [o EXCEPT !.sequence_as_large_list = value]

TracingOptions_string_dictionary_encoding(o, value) ==
    [o EXCEPT !.string_dictionary_encoding = value]

TracingOptions_coerce_numbers(o, value) == [o EXCEPT !.coerce_numbers = value]

TracingOptions_guess_dates(o, value) == [o EXCEPT !.guess_dates = value]

TracingOptions_from_type_budget(o, value) ==
    [o EXCEPT !.from_type_budget = value]

TracingOptions_enums_without_data_as_strings(o, value) ==
    [o EXCEPT !.enums_without_data_as_strings = value]

TracingOptions_tracing_mode(o, value) == [o EXCEPT !.tracing_mode = value]

\* value::transmute(&field): the value is serialized and read back as a
\* GenericField; a value without a name or a data type does not convert, and
\* a missing nullable flag reads as false
value_transmute(field) ==
    IF {"name", "data_type"} \subseteq DOMAIN field
    THEN [ok |-> TRUE,
          val |-> [name |-> field.name, data_type |-> field.data_type,
                   nullable |-> IF "nullable" \in DOMAIN field
                                THEN field.nullable ELSE FALSE]]
    ELSE [ok |-> FALSE, val |-> None]

\* Result<Self>: self is consumed, so an error leaves no options behind
TracingOptions_overwrite_raw(o, path, field) ==
    LET f == value_transmute(field)
    IN  IF ~f.ok THEN [ok |-> FALSE, options |-> NoOptions]
        ELSE [ok |-> TRUE,
              options |-> [o EXCEPT !.overwrites = HashMap_insert(@, path, f.val)]]

TracingOptions_overwrite(o, path, field) ==
    LET key == "$." \o path
        f == value_transmute(field)
    IN  IF ~f.ok THEN [ok |-> FALSE, options |-> NoOptions]
        ELSE [ok |-> TRUE,
              options |-> [o EXCEPT !.overwrites = HashMap_insert(@, key, f.val)]]

TracingOptions_get_overwrite(o, path) == HashMap_get(o.overwrites, path)

(***************************************************************************)
(* The TracingOptions state machine: a value built with new() and passed   *)
(* through the builder methods.  tlog records whether the last call        *)
(* succeeded, the most recent field given for each path (last), and, while *)
(* only the six setters of the documentation's defaults example were       *)
(* called with that example's values (pristine), which of them were called.*)
(***************************************************************************)
Budgets == {0, 100}

Paths == {"a", "a.b", "$.a"}

\* what is given as a field: two field descriptors, and a value without a
\* data type
FieldInputs ==
    {[name |-> "a", data_type |-> "I64"],
     [name |-> "a", data_type |-> "Utf8", nullable |-> TRUE],
     [name |-> "a"]}

\* the setter calls of the example in the documentation: "The defaults are"
DocDefaults ==
    {<<"allow_null_fields", FALSE>>, <<"map_as_struct", TRUE>>,
     <<"string_dictionary_encoding", FALSE>>, <<"coerce_numbers", FALSE>>,
     <<"guess_dates", FALSE>>, <<"from_type_budget", 100>>}

InitTracing ==
    /\ ab = NoBuilder
    /\ taken = NoBuilder
    /\ rows = 0
    /\ open = FALSE
    /\ fed = NoFed
    /\ bres = NoResult
    /\ bd = NoBuild
    /\ rowsRead = 0
    /\ rt = NoRoundTrip
    /\ MapIdle
    /\ dd = NoDate32
    /\ dres = NoCall
    /\ PairIdle
    /\ topts = TracingOptions_new
    /\ tlog = [op |-> "new", ok |-> TRUE, pristine |-> TRUE, called |-> {},
               last |-> [p \in Paths |-> None]]

\* a setter call: it cannot fail
Setter(name, value, o) ==
    /\ topts # NoOptions
    /\ topts' = o
    /\ LET doc == tlog.pristine /\ <<name, value>> \in DocDefaults
       IN  tlog' = [tlog EXCEPT !.op = "set", !.ok = TRUE, !.pristine = doc,
                                !.called = IF doc THEN @ \cup {name} ELSE {}]
    /\ UNCHANGED <<bvars, cvars, mvars, dvars, pvars>>

AllowNullFields(v) ==
    Setter("allow_null_fields", v, TracingOptions_allow_null_fields(topts, v))

MapAsStruct(v) ==
    Setter("map_as_struct", v, TracingOptions_map_as_struct(topts, v))

SequenceAsLargeList(v) ==
    Setter("sequence_as_large_list", v,
           TracingOptions_sequence_as_large_list(topts, v))

StringDictionaryEncoding(v) ==
    Setter("string_dictionary_encoding", v,
           TracingOptions_string_dictionary_encoding(topts, v))

CoerceNumbers(v) ==
    Setter("coerce_numbers", v, TracingOptions_coerce_numbers(topts, v))

GuessDates(v) ==
    Setter("guess_dates", v, TracingOptions_guess_dates(topts, v))

FromTypeBudget(v) ==
    Setter("from_type_budget", v, TracingOptions_from_type_budget(topts, v))

EnumsWithoutDataAsStrings(v) ==
    Setter("enums_without_data_as_strings", v,
           TracingOptions_enums_without_data_as_strings(topts, v))

SetTracingMode(v) ==
    Setter("tracing_mode", v, TracingOptions_tracing_mode(topts, v))

Overwrite(path, field) ==
    /\ topts # NoOptions
    /\ LET r == TracingOptions_overwrite(topts, path, field)
       IN  /\ topts' = r.options
           /\ tlog' = [tlog EXCEPT !.op = "overwrite", !.ok = r.ok,
                                   !.pristine = FALSE, !.called = {},
                                   !.last = IF r.ok THEN [@ EXCEPT ![path] = Some(field)]
                                            ELSE @]
    /\ UNCHANGED <<bvars, cvars, mvars, dvars, pvars>>

NextTracing ==
    \/ \E v \in BOOLEAN : AllowNullFields(v)
    \/ \E v \in BOOLEAN : MapAsStruct(v)
    \/ \E v \in BOOLEAN : SequenceAsLargeList(v)
    \/ \E v \in BOOLEAN : StringDictionaryEncoding(v)
    \/ \E v \in BOOLEAN : CoerceNumbers(v)
    \/ \E v \in BOOLEAN : GuessDates(v)
    \/ \E v \in Budgets : FromTypeBudget(v)
    \/ \E v \in BOOLEAN : EnumsWithoutDataAsStrings(v)
    \/ \E v \in TracingModes : SetTracingMode(v)
    \/ \E path \in Paths, field \in FieldInputs : Overwrite(path, field)

SpecTracing == InitTracing /\ [][NextTracing]_vars

(***************************************************************************)
(* C19: TracingOptions::default() equals TracingOptions::new(), and equals *)
(* the value obtained from new() by calling allow_null_fields(false),      *)
(* map_as_struct(true), string_dictionary_encoding(false),                 *)
(* coerce_numbers(false), guess_dates(false) and from_type_budget(100) in  *)
(* any order, any number of times.                                         *)
(***************************************************************************)
DefaultsAreTheDocumentedOnes ==
    /\ TracingOptions_new = TracingOptions_default
    /\ (topts # NoOptions /\ tlog.pristine) => topts = TracingOptions_default

DefaultsWitness ==
    /\ topts # NoOptions
    /\ tlog.pristine
    /\ tlog.called = {d[1] : d \in DocDefaults}
(***************************************************************************)
(* C20: after successful overwrite(path, field) calls, get_overwrite of    *)
(* "$." followed by the path returns the field of the most recent          *)
(* overwrite of that path, and get_overwrite returns None for every key no *)
(* overwrite has written; an overwrite changes no other option and no      *)
(* other key's entry; a field that does not convert yields an error and no *)
(* stored entry.                                                           *)
(***************************************************************************)
OverwriteKeys == Paths \cup {"$." \o p : p \in Paths}

OverwritesFollowLast(o, last) ==
    /\ \A p \in Paths :
          TracingOptions_get_overwrite(o, "$." \o p) =
              IF last[p].some THEN Some(value_transmute(last[p].v).val) ELSE None
    /\ \A k \in OverwriteKeys :
          (\A p \in Paths : last[p].some => k # "$." \o p) =>
              TracingOptions_get_overwrite(o, k) = None

OverwriteFrame(path, field) ==
    IF value_transmute(field).ok
    THEN /\ tlog'.ok
         /\ [topts' EXCEPT !.overwrites = topts.overwrites] = topts
         /\ \A k \in OverwriteKeys \ {"$." \o path} :
               TracingOptions_get_overwrite(topts', k) =
                   TracingOptions_get_overwrite(topts, k)
    ELSE ~tlog'.ok /\ topts' = NoOptions

OverwritesAreKept ==
    [][/\ topts' # NoOptions => OverwritesFollowLast(topts', tlog'.last)
       /\ \A path \in Paths, field \in FieldInputs :
             Overwrite(path, field) => OverwriteFrame(path, field)]_vars

OverwriteWitness ==
    /\ topts # NoOptions
    /\ tlog.op = "overwrite" /\ tlog.ok
    /\ topts.map_as_struct = FALSE
    /\ tlog.last["a"] = Some([name |-> "a", data_type |-> "I64"])
    /\ tlog.last["$.a"].some /\ ~tlog.last["a.b"].some
    /\ TracingOptions_get_overwrite(topts, "$.a") =
          Some([name |-> "a", data_type |-> "I64", nullable |-> FALSE])
    /\ TracingOptions_get_overwrite(topts, "$.$.a") # None
    /\ TracingOptions_get_overwrite(topts, "a") = None
    /\ TracingOptions_get_overwrite(topts, "$.a.b") = None
(***************************************************************************)
(* C21: on a list builder over a scalar element builder, after successful  *)
(* complete rows the last offset is the number of values the element       *)
(* builder holds, and each row given as a sequence is valid and as wide as *)
(* the number of element events between its start and its end; an empty    *)
(* sequence is a valid row of width 0.                                     *)
(***************************************************************************)
\* the rows fed since the most recent take
FedSinceTake == SubSeq(fed.rows, fed.cut + 1, Len(fed.rows))

RowWidth(b, i) == BOffsets(b)[i + 1] - BOffsets(b)[i]

RowIsValid(b, i) == ArrayBuilder_is_nullable(b) => BValidity(b)[i]

WidthsCountElements ==
    (ab # NoBuilder /\ IsList(ab) /\ bres.ok /\ ~open) =>
        /\ NumRows(ab) = Len(FedSinceTake)
        /\ Last(BOffsets(ab)) = Len(ab.element.values)
        /\ \A i \in 1..Len(FedSinceTake) :
              FedSinceTake[i].ev = "seq" =>
                  /\ RowWidth(ab, i) = Len(FedSinceTake[i].v)
                  /\ RowIsValid(ab, i)

WidthsWitness ==
    /\ ab # NoBuilder /\ IsList(ab) /\ bres.ok /\ ~open
    /\ ArrayBuilder_is_nullable(ab)
    /\ fed.cut = 0 /\ Len(fed.rows) = 2
    /\ fed.rows[1] = FedRow("seq", <<>>)
    /\ fed.rows[2].ev = "seq" /\ Len(fed.rows[2].v) = 2
    /\ BOffsets(ab) = <<0, 0, 2>>
    /\ BValidity(ab) = <<TRUE, TRUE>>
    /\ Len(ab.element.values) = 2
FreshLike(b) ==
    IF IsList(b)
    THEN ListBuilder_new(b.variant, b.path, IntBuilder_new(b.element.path),
                         ArrayBuilder_is_nullable(b))
    ELSE Utf8Builder_new(b.variant, b.path, ArrayBuilder_is_nullable(b))

RECURSIVE FeedItems(_, _)
FeedItems(r, items) ==
    IF ~r.ok \/ items = <<>> THEN r
    ELSE FeedItems(ArrayBuilder_serialize_seq_element(r.st, Head(items)), Tail(items))

\* the events of one row of the caller's record, sent to the builder r.st
FeedRow(r, row) ==
    IF ~r.ok THEN r
    ELSE CASE row.ev = "none" -> ArrayBuilder_serialize_none(r.st)
           [] row.ev = "default" -> ArrayBuilder_serialize_default(r.st)
           [] row.ev = "str" -> ArrayBuilder_serialize_str(r.st, row.v)
           [] OTHER ->
                LET e == FeedItems(ArrayBuilder_serialize_seq_start(r.st), row.v)
                IN  IF ~e.ok THEN e ELSE ArrayBuilder_serialize_seq_end(e.st)

RECURSIVE FeedRows(_, _)
FeedRows(r, rs) ==
    IF rs = <<>> THEN r ELSE FeedRows(FeedRow(r, Head(rs)), Tail(rs))

\* the rows of a list or string array: validity bit and values of each row
ArrayRows(a) ==
    LET values == IF a.cls[1] = "ListArray" THEN a.children[1].data ELSE a.data
    IN  [i \in 1..a.len |->
            [valid |-> IF a.validity.some THEN a.validity.bits[i] ELSE TRUE,
             items |-> SubSeq(values, a.offsets[i] + 1, a.offsets[i + 1])]]

ChunksConcatenate ==
    (taken # NoBuilder /\ bres.ok /\ ~open) =>
        LET oneshot == FeedRows(Ok(FreshLike(ab)), fed.rows)
            first == ArrayBuilder_into_array(taken)
            second == ArrayBuilder_into_array(ab)
        IN  /\ oneshot.ok
            /\ first.len = fed.cut
            /\ ArrayRows(first) \o ArrayRows(second) =
                  ArrayRows(ArrayBuilder_into_array(oneshot.st))
            /\ first.cls = second.cls
            /\ first.validity.some = second.validity.some
            /\ second.cls = ArrayBuilder_into_array(oneshot.st).cls
            /\ second.offsets[1] = 0

ChunksWitness ==
    /\ taken # NoBuilder /\ bres.ok /\ ~open
    /\ fed.cut = 1 /\ Len(fed.rows) = 2
    /\ fed.rows[1].v # <<>> /\ fed.rows[2].v # <<>>
    /\ ArrayBuilder_into_array(taken).len = 1
    /\ ArrayBuilder_into_array(ab).offsets = <<0, Len(fed.rows[2].v)>>
(***************************************************************************)
(* C24: on a list builder the tuple events, the tuple struct events and a  *)
(* bytes event are sequence events under other names: whichever of them    *)
(* gave the rows, the builder is in the state that seq-start, one          *)
(* seq-element per item (per byte) and seq-end for each row lead to.       *)
(***************************************************************************)
\* the builder that sequence events lead to for the rows fed since the most
\* recent take: the complete rows, then the start and the items of a row
\* that is still open
SeqReplay ==
    LET n == Len(FedSinceTake)
        done == FeedRows(Ok(FreshLike(ab)),
                         IF open THEN SubSeq(FedSinceTake, 1, n - 1) ELSE FedSinceTake)
    IN  IF ~open \/ ~done.ok THEN done
        ELSE FeedItems(ArrayBuilder_serialize_seq_start(done.st), FedSinceTake[n].v)

SequenceLikeEventsAgree ==
    (ab # NoBuilder /\ IsList(ab) /\ bres.ok) =>
        (SeqReplay.ok /\ SeqReplay.st = ab)

TupleStructWitness ==
    /\ ab # NoBuilder /\ IsList(ab) /\ bres.ok /\ open
    /\ OpenKind = "tuple_struct"
    /\ Len(FedSinceTake) = 2
    /\ FedSinceTake[1].ev = "seq" /\ Len(FedSinceTake[1].v) = 1
    /\ Len(FedSinceTake[2].v) = 2
    /\ Len(ab.element.values) = 3
    /\ BOffsets(ab) = <<0, 1, 3>>
(***************************************************************************)
(* C25: build_struct_fields returns one deserializer per field descriptor, *)
(* in the order of the fields, each under its field's name and built from  *)
(* the array at the same position, and a row count that is the first       *)
(* array's length (0 without fields); build_deserializer gives the outer   *)
(* sequence these deserializers and this row count as its length.          *)
(***************************************************************************)
FieldsBuiltInOrder ==
    (bd # NoBuild /\ bd.fn = "build_deserializer" /\ bd.res.ok) =>
        LET built == build_struct_fields(bd.fields, bd.arrays)
        IN  /\ built.ok
            /\ Len(built.de.fields) = Len(bd.fields)
            /\ \A i \in 1..Len(bd.fields) :
                  /\ built.de.fields[i].name = bd.fields[i].name
                  /\ built.de.fields[i].de =
                        build_array_deserializer(bd.fields[i], bd.arrays[i]).de
            /\ built.de.len = IF bd.arrays = <<>> THEN 0 ELSE bd.arrays[1].len
            /\ bd.res.de.kind = "OuterSequence"
            /\ bd.res.de.fields = built.de.fields
            /\ bd.res.de.len = built.de.len
            /\ rowsRead <= built.de.len

FieldsInOrderWitness ==
    /\ bd # NoBuild /\ bd.fn = "build_deserializer" /\ bd.res.ok
    /\ Len(bd.fields) = 2
    /\ bd.fields[1].name # bd.fields[2].name
    /\ bd.fields[1].data_type # bd.fields[2].data_type
    /\ bd.res.de.len = 2
    /\ rowsRead = 2

(***************************************************************************)
(* The calendar, counted independently of the conversion: the days from    *)
(* 1970-01-01 to a date are the days of the whole years between, the days   *)
(* of the whole months before it in its year, and its day of the month.    *)
(***************************************************************************)
IsLeapYear(y) == y % 4 = 0 /\ (y % 100 # 0 \/ y % 400 = 0)

DaysInMonth(y, m) ==
    IF m = 2 THEN (IF IsLeapYear(y) THEN 29 ELSE 28)
    ELSE IF m \in {4, 6, 9, 11} THEN 30 ELSE 31

\* the leap years among 1..y
LeapYearsUpTo(y) == y \div 4 - y \div 100 + y \div 400

RECURSIVE DaysBeforeMonth(_, _)
DaysBeforeMonth(y, m) ==
    IF m = 1 THEN 0 ELSE DaysBeforeMonth(y, m - 1) + DaysInMonth(y, m - 1)

DaysAfterEpoch(c) ==
    365 * (c.year - 1970) + LeapYearsUpTo(c.year - 1) - LeapYearsUpTo(1969)
    + DaysBeforeMonth(c.year, c.month) + c.day - 1

\* the years the day counts of DayCounts fall in, the two ends of the 32-bit
\* range left aside: they fall in the years -5877641 and 5881580
CalendarYears == {1969, 1970, 2000, 10000}

CalendarDates ==
    {c \in [year : CalendarYears, month : 1..12, day : 1..31] :
        c.day <= DaysInMonth(c.year, c.month)}

\* the calendar dates that lie ts days after 1970-01-01
DatesAfterEpoch == [ts \in DayCounts |-> {c \in CalendarDates : DaysAfterEpoch(c) = ts}]

(***************************************************************************)
(* C26: get_string_repr(ts) returns, for every 32-bit day count ts, the     *)
(* calendar date that lies ts days after 1970-01-01 and leaves the          *)
(* deserializer as it is; deserialize_str and deserialize_string on a valid *)
(* row return that string for the row's value and advance the cursor by     *)
(* exactly one row.                                                         *)
(***************************************************************************)
DatesAreRendered ==
    [][/\ \A ts \in DayCounts :
            Date32GetStringRepr(ts) =>
                /\ dd' = dd
                /\ dres'.res = "string"
                /\ \E c \in DatesAfterEpoch[ts] : dres'.val = NaiveDate_to_string(c)
       /\ ((Date32DeserializeStr \/ Date32DeserializeString)
                /\ Date32RowInBounds /\ ~Date32RowIsNull) =>
            /\ dd' = [dd EXCEPT !.array.next = @ + 1]
            /\ dres'.res = "string"
            /\ \E c \in DatesAfterEpoch[dd.array.buffer[dd.array.next + 1]] :
                    dres'.val = NaiveDate_to_string(c)]_vars

\* the same for the day counts a NaiveDate can hold
RepresentableDatesAreRendered ==
    [][/\ \A ts \in DayCounts :
            Date32GetStringRepr(ts) =>
                /\ dd' = dd
                /\ DatesAfterEpoch[ts] # {} =>
                    /\ dres'.res = "string"
                    /\ \E c \in DatesAfterEpoch[ts] : dres'.val = NaiveDate_to_string(c)
       /\ ((Date32DeserializeStr \/ Date32DeserializeString)
                /\ Date32RowInBounds /\ ~Date32RowIsNull) =>
            /\ dd' = [dd EXCEPT !.array.next = @ + 1]
            /\ DatesAfterEpoch[dd.array.buffer[dd.array.next + 1]] # {} =>
                /\ dres'.res = "string"
                /\ \E c \in DatesAfterEpoch[dd.array.buffer[dd.array.next + 1]] :
                        dres'.val = NaiveDate_to_string(c)]_vars


(***************************************************************************)
(* C27: in a MapDeserializer, for every sequence of next_key_seed and       *)
(* next_value_seed calls the entry index j at row i satisfies               *)
(* 0 <= j <= offsets[i+1] - offsets[i], the key child and the value child   *)
(* have been advanced the same number of times after each completed         *)
(* key/value pair, and the subtraction offsets[i+1] - offsets[i] in         *)
(* next_key_seed never underflows.                                          *)
(***************************************************************************)
RowWidthAt(i) == md.offsets[i + 2] - md.offsets[i + 1]

EntryIndexInRow == MapRowInBounds => (0 <= md.next[2] /\ md.next[2] <= RowWidthAt(md.next[1]))

ChildrenInStep ==
    (mres.op = "next_value_seed" /\ mres.res = "value") => md.key.next = md.value.next

\* the last next_key_seed found end >= start, and so will the next one
NoUnderflow ==
    /\ (mres.op = "next_key_seed" /\ mres.at[1] + 1 < Len(md.offsets)) =>
            (mres.res # "panic" /\ RowWidthAt(mres.at[1]) >= 0)
    /\ MapRowInBounds => RowWidthAt(md.next[1]) >= 0

EntryIndexStaysInRow ==
    Constructed => (EntryIndexInRow /\ ChildrenInStep /\ NoUnderflow)

(***************************************************************************)
(* C27, for the consumers that keep to the MapAccess protocol: after a      *)
(* deserialize call has started a row, next_key_seed and next_value_seed    *)
(* are called in turn, next_value_seed only after a next_key_seed that      *)
(* answered a key, and neither after next_key_seed has answered that the    *)
(* row has ended.  Then the entry index stays within the row's width and    *)
(* the children are in step after each pair; the subtraction does not       *)
(* underflow whatever the consumer calls.                                   *)
(***************************************************************************)
ProtocolKeepsEntryIndexInRow ==
    Constructed =>
        /\ NoUnderflow
        /\ proto => (EntryIndexInRow /\ ChildrenInStep)

\* a row of two entries has been read to its last pair by the protocol
LastPairWitness ==
    /\ Constructed /\ proto
    /\ mres.op = "next_value_seed" /\ mres.res = "value"
    /\ MapRowInBounds
    /\ md.next[2] = 2 /\ RowWidthAt(md.next[1]) = 2
    /\ md.key.next = 2 /\ md.value.next = 2

====
